---- MODULE Spec2Model ----
(***************************************************************************)
(* Model of the data-cleaning scripts of the India Inflation Atlas         *)
(* (src/datacleaning/*.py).  Every script is a straight-line program over  *)
(* one in-memory table: one action per statement, in program order.        *)
(*                                                                         *)
(* Tables are modelled after pd.read_csv: a sequence of rows whose cells   *)
(* carry the type the frame holds them with (int, float, str, missing).    *)
(* Strings are sequences of one-character strings so that the string       *)
(* operations of the scripts (lower, strip, replace, regular expressions)  *)
(* are computed character by character.                                    *)
(*                                                                         *)
(* pandas semantics are those of the 1.x/2.x line the scripts are written  *)
(* for: Series.fillna(method='ffill', inplace=True) on df[col] updates the *)
(* frame, duplicated() treats two missing values as equal, mean() skips    *)
(* missing values and is missing for an all-missing column.                *)
(***************************************************************************)
EXTENDS Integers, Sequences, FiniteSets, TLC

VARIABLES
    script,   \* which script this process runs
    pc,       \* the statement the script is about to execute
    src,      \* the table held by the input file (never written)
    df,       \* the in-memory table
    hist,     \* hist[k] = df just before the k-th statement ran
    out,      \* the destination file: [written, table]
    err,      \* the exception that ended the run, "none" otherwise
    tabs,     \* dashboard: the value of the 'tabs' component (the view type)
    controls, \* dashboard: the values shown by the controls of the view
    stores,   \* dashboard: the four dcc.Store components, one per view
    item_df,  \* dashboard: the item table loaded at startup
    state_df, \* dashboard: the state table loaded at startup
    rendered, \* dashboard: what update_visualization returned last
    clicks,   \* dashboard: number of user interactions so far
    chosen,   \* dashboard: per view and field, the value the user chose last
    printed   \* check.py: what the script has printed so far

cleanVars == <<script, pc, src, df, hist, out, err>>

dashVars == <<tabs, controls, stores, item_df, state_df, rendered, clicks,
              chosen>>

vars == <<cleanVars, dashVars, printed>>

\* ------------------------------------------------------------------ bounds

MaxRows == 3

\* Longest history handed to the forecast engine on its own.
MaxHist == 4

\* Most user interactions with the dashboard in one session.
MaxClicks == 4

\* ----------------------------------------------------------------- helpers

Range(s) == {s[i] : i \in 1..Len(s)}

SeqsUpTo(S, n) == UNION {[1..k -> S] : k \in 0..n}

RECURSIVE Gcd(_, _)
Gcd(a, b) == IF b = 0 THEN a ELSE Gcd(b, a % b)

Abs(x) == IF x < 0 THEN -x ELSE x

\* ------------------------------------------------- numeric cells (float64)
\* A combined_index cell: missing, or the number n/d in lowest terms.

NaN == [nan |-> TRUE, n |-> 0, d |-> 1]

Rat(n, d) ==
    LET g == Gcd(Abs(n), d)
    IN  [nan |-> FALSE, n |-> n \div g, d |-> d \div g]

Num(n) == Rat(n, 1)

RatAdd(a, b) == Rat(a.n * b.d + b.n * a.d, a.d * b.d)

\* ------------------------------------------------- object / int cells
\* A cell of an item_code, year or month column, with the type the frame
\* holds it with: an int n, a float n + f/10 (n >= 0, one decimal), a str
\* (a sequence of characters) or a missing value.

IntCell(n) == [t |-> "int", n |-> n, f |-> 0, s |-> <<>>]
FloatCell(n, f) == [t |-> "float", n |-> n, f |-> f, s |-> <<>>]
Str(s) == [t |-> "str", n |-> 0, f |-> 0, s |-> s]
Missing == [t |-> "nan", n |-> 0, f |-> 0, s |-> <<>>]

\* The result of an operation that may raise.
Ok(v) == [ok |-> TRUE, v |-> v]
Raise == [ok |-> FALSE, v |-> <<>>]

\* ------------------------------------------------- errorAnalysis.py

\* DataFrame.duplicated(keep='first'): row i repeats an earlier row.
Duplicated(rows, i) == \E j \in 1..(i - 1) : rows[j] = rows[i]

RECURSIVE KeepFirstFrom(_, _)
KeepFirstFrom(rows, i) ==
    IF i > Len(rows) THEN <<>>
    ELSE (IF Duplicated(rows, i) THEN <<>> ELSE <<rows[i]>>)
         \o KeepFirstFrom(rows, i + 1)

\* A plausible slip: only a repeat of the row directly above is dropped.
DropDuplicatesAdjacent(rows) ==
    LET keep == SelectSeq([i \in 1..Len(rows) |-> i],
                          LAMBDA i : ~(i > 1 /\ rows[i - 1] = rows[i]))
    IN  [k \in 1..Len(keep) |-> rows[keep[k]]]

\* df.drop_duplicates(inplace=True)
DropDuplicates(rows) == KeepFirstFrom(rows, 1)

RECURSIVE FfillFrom(_, _, _)
FfillFrom(rows, i, last) ==
    IF i > Len(rows) THEN <<>>
    ELSE LET v  == rows[i].combined_index
             nv == IF v.nan THEN last ELSE v
         IN  <<[rows[i] EXCEPT !.combined_index = nv]>>
             \o FfillFrom(rows, i + 1, nv)

\* df['combined_index'].fillna(method='ffill', inplace=True)
Ffill(rows) == FfillFrom(rows, 1, NaN)

RECURSIVE SumFrom(_, _)
SumFrom(rows, i) ==
    IF i > Len(rows) THEN Num(0)
    ELSE IF rows[i].combined_index.nan THEN SumFrom(rows, i + 1)
    ELSE RatAdd(rows[i].combined_index, SumFrom(rows, i + 1))

CountValid(rows) ==
    Cardinality({i \in 1..Len(rows) : ~rows[i].combined_index.nan})

\* df['combined_index'].mean(): missing cells are skipped; missing when
\* there is nothing to average.
Mean(rows) ==
    IF CountValid(rows) = 0 THEN NaN
    ELSE LET s == SumFrom(rows, 1)
         IN  Rat(s.n, s.d * CountValid(rows))

\* Series.fillna(value): a missing fill value fills nothing.
FillNa(rows, value) ==
    [i \in 1..Len(rows) |->
        IF rows[i].combined_index.nan
        THEN [rows[i] EXCEPT !.combined_index = value]
        ELSE rows[i]]

EAItems == {"A", "B"}
EAValues == {NaN, Num(1), Num(2)}
EARows == [item_code : EAItems, year : {2020}, month : {1},
           combined_index : EAValues]

NoFile == [written |-> FALSE, table |-> <<>>]

EA_Init ==
    /\ script = "errorAnalysis"
    /\ pc = "read_csv"
    /\ src \in SeqsUpTo(EARows, MaxRows)
    /\ df = <<>>
    /\ hist = <<>>
    /\ out = NoFile
    /\ err = "none"

\* errorAnalysis.py:5
EA_ReadCsv ==
    /\ script = "errorAnalysis" /\ pc = "read_csv"
    /\ df' = src
    /\ hist' = Append(hist, df)
    /\ pc' = "drop_duplicates"
    /\ UNCHANGED <<script, src, out, err>>

\* errorAnalysis.py:8
EA_DropDuplicates ==
    /\ script = "errorAnalysis" /\ pc = "drop_duplicates"
    /\ df' = DropDuplicates(df)
    /\ hist' = Append(hist, df)
    /\ pc' = "ffill"
    /\ UNCHANGED <<script, src, out, err>>

\* errorAnalysis.py:11
EA_Ffill ==
    /\ script = "errorAnalysis" /\ pc = "ffill"
    /\ df' = Ffill(df)
    /\ hist' = Append(hist, df)
    /\ pc' = "fillna_mean"
    /\ UNCHANGED <<script, src, out, err>>

\* errorAnalysis.py:12
EA_FillnaMean ==
    /\ script = "errorAnalysis" /\ pc = "fillna_mean"
    /\ df' = FillNa(df, Mean(df))
    /\ hist' = Append(hist, df)
    /\ pc' = "to_csv"
    /\ UNCHANGED <<script, src, out, err>>

\* errorAnalysis.py:16
EA_ToCsv ==
    /\ script = "errorAnalysis" /\ pc = "to_csv"
    /\ out' = [written |-> TRUE, table |-> df]
    /\ hist' = Append(hist, df)
    /\ pc' = "done"
    /\ UNCHANGED <<script, src, df, err>>

\* ------------------------------------------------- replaceP.py


EndsWith(s, suffix) ==
    /\ Len(s) >= Len(suffix)
    /\ SubSeq(s, Len(s) - Len(suffix) + 1, Len(s)) = suffix

DropLast(s, k) == SubSeq(s, 1, Len(s) - k)

\* re.sub(r"\.P$", "", s).  Without re.MULTILINE `$` matches at the end of
\* the string and just before a newline that ends the string, so the
\* pattern has at most one match.
SubDotPEnd(s) ==
    IF EndsWith(s, <<".", "P">>) THEN DropLast(s, 2)
    ELSE IF EndsWith(s, <<".", "P", "\n">>) THEN DropLast(s, 3) \o <<"\n">>
    ELSE s

\* Series.str.replace(r"\.P$", "", regex=True): element-wise, a missing
\* value stays missing.
StrReplaceDotP(cell) ==
    IF cell.t = "str" THEN Str(SubDotPEnd(cell.s)) ELSE cell

Code5 == <<"1", ".", "1", ".", "0", "1", ".", "1", ".", "1", ".">>

RPCodes ==
    { Str(Code5 \o <<"X">>),
      Str(Code5 \o <<"X", ".", "P">>),
      Str(Code5 \o <<"X", ".", "P", ".", "P">>),
      Str(Code5 \o <<"X", ".", "P", "\n">>),
      Str(Code5 \o <<"X", "P">>),
      Str(<<".", "P">>),
      Str(<<>>),
      Missing }

RPRows == [item_code : RPCodes]

RP_Init ==
    /\ script = "replaceP"
    /\ pc = "read_csv"
    /\ src \in SeqsUpTo(RPRows, MaxRows)
    /\ df = <<>>
    /\ hist = <<>>
    /\ out = NoFile
    /\ err = "none"

\* replaceP.py:4
RP_ReadCsv ==
    /\ script = "replaceP" /\ pc = "read_csv"
    /\ df' = src
    /\ hist' = Append(hist, df)
    /\ pc' = "str_replace"
    /\ UNCHANGED <<script, src, out, err>>

\* replaceP.py:7
RP_StrReplace ==
    /\ script = "replaceP" /\ pc = "str_replace"
    /\ df' = [i \in 1..Len(df) |->
                 [df[i] EXCEPT !.item_code = StrReplaceDotP(df[i].item_code)]]
    /\ hist' = Append(hist, df)
    /\ pc' = "to_csv"
    /\ UNCHANGED <<script, src, out, err>>

\* replaceP.py:10
RP_ToCsv ==
    /\ script = "replaceP" /\ pc = "to_csv"
    /\ out' = [written |-> TRUE, table |-> df]
    /\ hist' = Append(hist, df)
    /\ pc' = "done"
    /\ UNCHANGED <<script, src, df, err>>

\* ------------------------------------------------- str operations

UpperChars == <<"A", "B", "C", "D", "E", "F", "G", "H", "I", "J", "K", "L", "M",
                "N", "O", "P", "Q", "R", "S", "T", "U", "V", "W", "X", "Y", "Z">>
LowerChars == <<"a", "b", "c", "d", "e", "f", "g", "h", "i", "j", "k", "l", "m",
                "n", "o", "p", "q", "r", "s", "t", "u", "v", "w", "x", "y", "z">>
DigitChars == <<"0", "1", "2", "3", "4", "5", "6", "7", "8", "9">>

LowerChar(c) ==
    IF \E i \in 1..Len(UpperChars) : UpperChars[i] = c
    THEN LowerChars[CHOOSE i \in 1..Len(UpperChars) : UpperChars[i] = c]
    ELSE c

\* str.lower()
StrLower(s) == [i \in 1..Len(s) |-> LowerChar(s[i])]

\* str.replace(a, b) for one-character a and b
StrReplaceChar(s, a, b) == [i \in 1..Len(s) |-> IF s[i] = a THEN b ELSE s[i]]

IsSpace(c) == c \in {" ", "\t", "\n", "\r"}

RECURSIVE LStrip(_)
LStrip(s) == IF Len(s) > 0 /\ IsSpace(Head(s)) THEN LStrip(Tail(s)) ELSE s

RECURSIVE RStrip(_)
RStrip(s) ==
    IF Len(s) > 0 /\ IsSpace(s[Len(s)]) THEN RStrip(DropLast(s, 1)) ELSE s

\* str.strip()
Strip(s) == RStrip(LStrip(s))

IsDigit(c) == \E i \in 1..Len(DigitChars) : DigitChars[i] = c
DigitVal(c) == (CHOOSE i \in 1..Len(DigitChars) : DigitChars[i] = c) - 1

RECURSIVE NatToStr(_)
NatToStr(n) ==
    IF n < 10 THEN <<DigitChars[n + 1]>>
    ELSE NatToStr(n \div 10) \o <<DigitChars[(n % 10) + 1]>>

\* str(n) of an int
IntToStr(n) == IF n < 0 THEN <<"-">> \o NatToStr(-n) ELSE NatToStr(n)

RECURSIVE DigitsToNat(_)
DigitsToNat(s) ==
    IF Len(s) = 0 THEN 0
    ELSE 10 * DigitsToNat(DropLast(s, 1)) + DigitVal(s[Len(s)])

AllDigits(s) == Len(s) > 0 /\ \A i \in 1..Len(s) : IsDigit(s[i])

\* int(s) of a str: surrounding whitespace and one sign are allowed,
\* anything else raises ValueError.  (Underscores between digits, which
\* int() also reads, occur in no modelled input.)
PyInt(s) ==
    LET b == Strip(s)
        signed == Len(b) > 0 /\ b[1] \in {"+", "-"}
        ds == IF signed THEN Tail(b) ELSE b
    IN  IF ~AllDigits(ds) THEN Raise
        ELSE Ok(IF signed /\ b[1] = "-" THEN -DigitsToNat(ds) ELSE DigitsToNat(ds))

\* str(x) of a cell, as Series.astype(str) produces it
CellToStr(c) ==
    CASE c.t = "int"   -> IntToStr(c.n)
      [] c.t = "float" -> NatToStr(c.n) \o <<".", DigitChars[c.f + 1]>>
      [] c.t = "str"   -> c.s
      [] c.t = "nan"   -> <<"n", "a", "n">>

\* int(x) of a cell, as Series.astype(int) applies it: a float is
\* truncated, a missing value and a non-integer literal raise ValueError.
CellToInt(c) ==
    CASE c.t = "int"   -> Ok(c.n)
      [] c.t = "float" -> Ok(c.n)
      [] c.t = "str"   -> PyInt(c.s)
      [] c.t = "nan"   -> Raise

\* Series.astype(int) of a column (a sequence of cells): all or nothing.
AsTypeInt(col) ==
    IF \E i \in 1..Len(col) : ~CellToInt(col[i]).ok THEN Raise
    ELSE Ok([i \in 1..Len(col) |-> IntCell(CellToInt(col[i]).v)])

\* ------------------------------------------------- frames with headers
\* columns: the header of each column and the row field it labels.

HasColumn(frame, name) ==
    \E i \in 1..Len(frame.columns) : frame.columns[i].name = name

FieldOf(frame, name) ==
    frame.columns[CHOOSE i \in 1..Len(frame.columns) :
                     /\ frame.columns[i].name = name
                     /\ \A j \in 1..(i - 1) : frame.columns[j].name # name].field

\* df[name]
GetColumn(frame, name) ==
    [i \in 1..Len(frame.rows) |-> frame.rows[i][FieldOf(frame, name)]]

\* df[name] = col
SetColumn(frame, name, col) ==
    [frame EXCEPT !.rows =
        [i \in 1..Len(frame.rows) |->
            [frame.rows[i] EXCEPT ![FieldOf(frame, name)] = col[i]]]]

\* The headers of the frame, left to right (df.columns).
ColumnNames(frame) == [i \in 1..Len(frame.columns) |-> frame.columns[i].name]

\* df.columns = names
SetColumnNames(frame, names) ==
    [frame EXCEPT !.columns =
        [i \in 1..Len(frame.columns) |->
            [frame.columns[i] EXCEPT !.name = names[i]]]]

\* ------------------------------------------------- cleanup.py

MaxCoerceRows == 2

YEAR == <<"y", "e", "a", "r">>
MONTH == <<"m", "o", "n", "t", "h">>

\* cleanup.py:8  .str.lower().str.replace(" ", "_").str.replace("-", "_")
CanonicalName(h) == StrReplaceChar(StrReplaceChar(StrLower(h), " ", "_"), "-", "_")

CanonicalNames(names) == [i \in 1..Len(names) |-> CanonicalName(names[i])]

\* "1" .. "12"  (cleanup.py:19)
MonthStrings == {IntToStr(i) : i \in 1..12}

\* A plausible slip: months stored zero-based.
MonthAsTypeIntZeroBased(col) ==
    IF ~AsTypeInt(col).ok THEN Raise
    ELSE Ok([i \in 1..Len(col) |-> IntCell(AsTypeInt(col).v[i].n - 1)])

\* cleanup.py:21, cleanup2.py:19  df['month'].astype(int)
MonthAsTypeInt(col) == AsTypeInt(col)

\* A plausible slip: the year is rounded up instead of being checked.
YearAsTypeIntCeil(col) ==
    IF \E i \in 1..Len(col) : ~CellToInt(col[i]).ok THEN Raise
    ELSE Ok([i \in 1..Len(col) |->
                IntCell(CellToInt(col[i]).v
                        + (IF col[i].t = "float" /\ col[i].f > 0 THEN 1 ELSE 0))])

\* cleanup.py:13  item_df['year'].astype(int)
YearAsTypeInt(col) == AsTypeInt(col)

\* A plausible slip: the range check forgets the upper months.
MonthAcceptedUpTo9(col) ==
    \A i \in 1..Len(col) : col[i].s \in {IntToStr(k) : k \in 1..9}

\* cleanup.py:19  all(item_df['month'].isin([str(i) for i in range(1, 13)]))
MonthAccepted(col) == \A i \in 1..Len(col) : col[i].s \in MonthStrings

\* cleanup.py:18  .astype(str).str.strip()
MonthStripped(col) == [i \in 1..Len(col) |-> Str(Strip(CellToStr(col[i])))]

ItemColumns(y, m, c) ==
    << [name |-> y, field |-> "year"],
       [name |-> m, field |-> "month"],
       [name |-> c, field |-> "combined_index"] >>

CUColumnSets ==
    { ItemColumns(<<"y", "e", "a", "r">>, <<"m", "o", "n", "t", "h">>, <<"c", "o", "m", "b", "i", "n", "e", "d", "_", "i", "n", "d", "e", "x">>),
      ItemColumns(<<"Y", "e", "a", "r">>, <<"M", "o", "n", "t", "h">>, <<"C", "o", "m", "b", "i", "n", "e", "d", " ", "I", "n", "d", "e", "x">>),
      ItemColumns(<<"Y", "E", "A", "R">>, <<"M", "O", "N", "T", "H">>, <<"c", "o", "m", "b", "i", "n", "e", "d", "-", "i", "n", "d", "e", "x">>),
      ItemColumns(<<"Y", "e", "a", "r", " ">>, <<"M", "o", "n", "t", "h">>, <<"C", "o", "m", "b", "i", "n", "e", "d", " ", "I", "n", "d", "e", "x">>) }

CUYearCells ==
    { IntCell(2020), FloatCell(2020, 0), FloatCell(2020, 5),
      Str(<<"2", "0", "2", "1">>), Str(<<"2", "0", "x", "0">>), Str(<<"2", "0", "2", "0", ".", "5">>), Missing }

CUMonthCells ==
    { IntCell(1), IntCell(12), IntCell(13), IntCell(0), FloatCell(1, 0),
      Str(<<"0", "1">>), Str(<<" ", "7", " ">>), Str(<<"M", "a", "r", "c", "h">>), Missing }

CURows ==
    {[year |-> y, month |-> IntCell(1), combined_index |-> Num(1)] :
        y \in CUYearCells}
    \cup {[year |-> IntCell(2020), month |-> m, combined_index |-> Num(1)] :
        m \in CUMonthCells}
    \cup {[year |-> Missing, month |-> Missing, combined_index |-> Num(1)]}

EmptyFrame == [columns |-> <<>>, rows |-> <<>>]

CU_Init ==
    /\ script = "cleanup"
    /\ pc = "read_csv"
    /\ src \in [columns : CUColumnSets, rows : SeqsUpTo(CURows, MaxCoerceRows)]
    /\ df = EmptyFrame
    /\ hist = <<>>
    /\ out = NoFile
    /\ err = "none"

\* cleanup.py:5
CU_ReadCsv ==
    /\ script = "cleanup" /\ pc = "read_csv"
    /\ df' = src
    /\ hist' = Append(hist, df)
    /\ pc' = "columns"
    /\ UNCHANGED <<script, src, out, err>>

\* cleanup.py:8
CU_Columns ==
    /\ script = "cleanup" /\ pc = "columns"
    /\ df' = SetColumnNames(df, CanonicalNames(ColumnNames(df)))
    /\ hist' = Append(hist, df)
    /\ pc' = "year_astype"
    /\ UNCHANGED <<script, src, out, err>>

\* cleanup.py:12-15: a column that is not there is a KeyError, which the
\* except clause does not catch; a failed conversion is re-raised as
\* ValueError.
CU_YearAsType ==
    /\ script = "cleanup" /\ pc = "year_astype"
    /\ hist' = Append(hist, df)
    /\ IF ~HasColumn(df, YEAR)
       THEN /\ pc' = "failed" /\ err' = "KeyError" /\ df' = df
       ELSE IF ~YearAsTypeInt(GetColumn(df, YEAR)).ok
       THEN /\ pc' = "failed" /\ err' = "ValueError" /\ df' = df
       ELSE /\ pc' = "month_strip" /\ err' = err
            /\ df' = SetColumn(df, YEAR, YearAsTypeInt(GetColumn(df, YEAR)).v)
    /\ UNCHANGED <<script, src, out>>

\* cleanup.py:18
CU_MonthStrip ==
    /\ script = "cleanup" /\ pc = "month_strip"
    /\ hist' = Append(hist, df)
    /\ IF ~HasColumn(df, MONTH)
       THEN /\ pc' = "failed" /\ err' = "KeyError" /\ df' = df
       ELSE /\ pc' = "month_check" /\ err' = err
            /\ df' = SetColumn(df, MONTH, MonthStripped(GetColumn(df, MONTH)))
    /\ UNCHANGED <<script, src, out>>

\* A run that saves the table before it validates the month column: the
\* ordering cleanup.py:19-25 rules out.
CU_MonthCheckAfterSave ==
    /\ script = "cleanup" /\ pc = "month_check"
    /\ hist' = Append(hist, df)
    /\ IF ~MonthAccepted(GetColumn(df, MONTH))
       THEN /\ pc' = "failed" /\ err' = "ValueError"
            /\ out' = [written |-> TRUE, table |-> df]
       ELSE /\ pc' = "month_astype" /\ err' = err /\ out' = out
    /\ UNCHANGED <<script, src, df>>

\* cleanup.py:19-20
CU_MonthCheck ==
    /\ script = "cleanup" /\ pc = "month_check"
    /\ hist' = Append(hist, df)
    /\ IF ~MonthAccepted(GetColumn(df, MONTH))
       THEN /\ pc' = "failed" /\ err' = "ValueError"
       ELSE /\ pc' = "month_astype" /\ err' = err
    /\ UNCHANGED <<script, src, df, out>>

\* cleanup.py:21
CU_MonthAsType ==
    /\ script = "cleanup" /\ pc = "month_astype"
    /\ hist' = Append(hist, df)
    /\ IF ~MonthAsTypeInt(GetColumn(df, MONTH)).ok
       THEN /\ pc' = "failed" /\ err' = "ValueError" /\ df' = df
       ELSE /\ pc' = "to_csv" /\ err' = err
            /\ df' = SetColumn(df, MONTH, MonthAsTypeInt(GetColumn(df, MONTH)).v)
    /\ UNCHANGED <<script, src, out>>

\* cleanup.py:25
CU_ToCsv ==
    /\ script = "cleanup" /\ pc = "to_csv"
    /\ out' = [written |-> TRUE, table |-> df]
    /\ hist' = Append(hist, df)
    /\ pc' = "done"
    /\ UNCHANGED <<script, src, df, err>>

\* ------------------------------------------------- cleanup2.py

\* cleanup2.py:7  .str.strip().str.lower().str.replace(" ", "_").str.replace("-", "_")
CanonicalName2(h) ==
    StrReplaceChar(StrReplaceChar(StrLower(Strip(h)), " ", "_"), "-", "_")

CanonicalNames2(names) == [i \in 1..Len(names) |-> CanonicalName2(names[i])]

\* cleanup2.py:10-13
month_mapping ==
    << [name |-> <<"J", "a", "n", "u", "a", "r", "y">>, number |-> 1],
       [name |-> <<"F", "e", "b", "r", "u", "a", "r", "y">>, number |-> 2],
       [name |-> <<"M", "a", "r", "c", "h">>, number |-> 3],
       [name |-> <<"A", "p", "r", "i", "l">>, number |-> 4],
       [name |-> <<"M", "a", "y">>, number |-> 5],
       [name |-> <<"J", "u", "n", "e">>, number |-> 6],
       [name |-> <<"J", "u", "l", "y">>, number |-> 7],
       [name |-> <<"A", "u", "g", "u", "s", "t">>, number |-> 8],
       [name |-> <<"S", "e", "p", "t", "e", "m", "b", "e", "r">>, number |-> 9],
       [name |-> <<"O", "c", "t", "o", "b", "e", "r">>, number |-> 10],
       [name |-> <<"N", "o", "v", "e", "m", "b", "e", "r">>, number |-> 11],
       [name |-> <<"D", "e", "c", "e", "m", "b", "e", "r">>, number |-> 12] >>

\* cleanup2.py:16  Series.replace(month_mapping): a cell equal to a key
\* becomes the key's number, every other cell is left as it is.
ReplaceMonth(c) ==
    IF c.t = "str" /\ \E k \in 1..Len(month_mapping) : month_mapping[k].name = c.s
    THEN IntCell(month_mapping[CHOOSE k \in 1..Len(month_mapping) :
                                   month_mapping[k].name = c.s].number)
    ELSE c

\* A missing value, in a float64 cell or in an object cell.
IsNA(v) == IF "nan" \in DOMAIN v THEN v.nan ELSE v.t = "nan"

RowHasNA(row) == \E f \in DOMAIN row : IsNA(row[f])

\* A plausible slip: only rows that are missing everywhere are dropped
\* (dropna(how='all')).
DropNaAll(rows) == SelectSeq(rows, LAMBDA r : ~(\A f \in DOMAIN r : IsNA(r[f])))

\* cleanup2.py:22  df.dropna(inplace=True)
DropNa(rows) == SelectSeq(rows, LAMBDA r : ~RowHasNA(r))

StateColumns(s, y, m, c) ==
    << [name |-> s, field |-> "state"],
       [name |-> y, field |-> "year"],
       [name |-> m, field |-> "month"],
       [name |-> <<"r", "u", "r", "a", "l">>, field |-> "rural"],
       [name |-> <<"u", "r", "b", "a", "n">>, field |-> "urban"],
       [name |-> c, field |-> "combined"] >>

C2ColumnSets ==
    { StateColumns(<<"s", "t", "a", "t", "e">>, <<"y", "e", "a", "r">>, <<"m", "o", "n", "t", "h">>, <<"c", "o", "m", "b", "i", "n", "e", "d">>),
      StateColumns(<<" ", "S", "t", "a", "t", "e">>, <<"Y", "e", "a", "r">>, <<"M", "o", "n", "t", "h", " ">>, <<"C", "o", "m", "b", "i", "n", "e", "d">>),
      StateColumns(<<" ", "S", "t", "a", "t", "e">>, <<"Y", "e", "a", "r">>, <<"M", "o", "n", "t", "h", "-", "N", "a", "m", "e">>, <<"C", "o", "m", "b", "i", "n", "e", "d">>) }

StateRow(m, c) ==
    [state |-> Str(<<"G", "o", "a">>), year |-> IntCell(2020), month |-> m,
     rural |-> Num(1), urban |-> Num(1), combined |-> c]

C2MonthCells ==
    { Str(<<"J", "a", "n", "u", "a", "r", "y">>), Str(<<"D", "e", "c", "e", "m", "b", "e", "r">>), Str(<<"j", "a", "n", "u", "a", "r", "y">>), IntCell(1),
      IntCell(13), FloatCell(1, 5), Str(<<"0">>), Str(<<"3">>), Missing }

C2Rows ==
    {StateRow(m, Num(1)) : m \in C2MonthCells}
    \cup {StateRow(Str(<<"J", "a", "n", "u", "a", "r", "y">>), c) : c \in {NaN, Num(2)}}

C2_Init ==
    /\ script = "cleanup2"
    /\ pc = "read_csv"
    /\ src \in [columns : C2ColumnSets, rows : SeqsUpTo(C2Rows, MaxCoerceRows)]
    /\ df = EmptyFrame
    /\ hist = <<>>
    /\ out = NoFile
    /\ err = "none"

\* cleanup2.py:4
C2_ReadCsv ==
    /\ script = "cleanup2" /\ pc = "read_csv"
    /\ df' = src
    /\ hist' = Append(hist, df)
    /\ pc' = "columns"
    /\ UNCHANGED <<script, src, out, err>>

\* cleanup2.py:7
C2_Columns ==
    /\ script = "cleanup2" /\ pc = "columns"
    /\ df' = SetColumnNames(df, CanonicalNames2(ColumnNames(df)))
    /\ hist' = Append(hist, df)
    /\ pc' = "month_replace"
    /\ UNCHANGED <<script, src, out, err>>

\* cleanup2.py:16
C2_MonthReplace ==
    /\ script = "cleanup2" /\ pc = "month_replace"
    /\ hist' = Append(hist, df)
    /\ IF ~HasColumn(df, MONTH)
       THEN /\ pc' = "failed" /\ err' = "KeyError" /\ df' = df
       ELSE /\ pc' = "month_astype" /\ err' = err
            /\ df' = SetColumn(df, MONTH,
                        LET col == GetColumn(df, MONTH)
                        IN  [i \in 1..Len(col) |-> ReplaceMonth(col[i])])
    /\ UNCHANGED <<script, src, out>>

\* A plausible slip: the rows with a missing value are dropped first, and
\* the months that are left are coerced.
C2_MonthAsTypeAfterDropNa ==
    /\ script = "cleanup2" /\ pc = "month_astype"
    /\ hist' = Append(hist, df)
    /\ LET kept == [df EXCEPT !.rows = DropNa(df.rows)]
       IN  IF ~MonthAsTypeInt(GetColumn(kept, MONTH)).ok
           THEN /\ pc' = "failed" /\ err' = "ValueError" /\ df' = df
           ELSE /\ pc' = "dropna" /\ err' = err
                /\ df' = SetColumn(kept, MONTH,
                            MonthAsTypeInt(GetColumn(kept, MONTH)).v)
    /\ UNCHANGED <<script, src, out>>

\* cleanup2.py:19
C2_MonthAsType ==
    /\ script = "cleanup2" /\ pc = "month_astype"
    /\ hist' = Append(hist, df)
    /\ IF ~MonthAsTypeInt(GetColumn(df, MONTH)).ok
       THEN /\ pc' = "failed" /\ err' = "ValueError" /\ df' = df
       ELSE /\ pc' = "dropna" /\ err' = err
            /\ df' = SetColumn(df, MONTH, MonthAsTypeInt(GetColumn(df, MONTH)).v)
    /\ UNCHANGED <<script, src, out>>

\* cleanup2.py:22
C2_DropNa ==
    /\ script = "cleanup2" /\ pc = "dropna"
    /\ df' = [df EXCEPT !.rows = DropNa(df.rows)]
    /\ hist' = Append(hist, df)
    /\ pc' = "drop_duplicates"
    /\ UNCHANGED <<script, src, out, err>>

\* cleanup2.py:25
C2_DropDuplicates ==
    /\ script = "cleanup2" /\ pc = "drop_duplicates"
    /\ df' = [df EXCEPT !.rows = DropDuplicates(df.rows)]
    /\ hist' = Append(hist, df)
    /\ pc' = "to_csv"
    /\ UNCHANGED <<script, src, out, err>>

\* cleanup2.py:28
C2_ToCsv ==
    /\ script = "cleanup2" /\ pc = "to_csv"
    /\ out' = [written |-> TRUE, table |-> df]
    /\ hist' = Append(hist, df)
    /\ pc' = "done"
    /\ UNCHANGED <<script, src, df, err>>

\* ------------------------------------------------- the normalizers, whole

\* cleanup.py:8-21 as one function of the loaded frame.
CU_Normalize(frame) ==
    LET f1 == SetColumnNames(frame, CanonicalNames(ColumnNames(frame)))
    IN  IF ~HasColumn(f1, YEAR) \/ ~HasColumn(f1, MONTH) THEN Raise
        ELSE LET y == YearAsTypeInt(GetColumn(f1, YEAR))
             IN  IF ~y.ok THEN Raise
                 ELSE LET f2 == SetColumn(f1, YEAR, y.v)
                          f3 == SetColumn(f2, MONTH, MonthStripped(GetColumn(f2, MONTH)))
                          m  == MonthAsTypeInt(GetColumn(f3, MONTH))
                      IN  IF ~MonthAccepted(GetColumn(f3, MONTH)) \/ ~m.ok THEN Raise
                          ELSE Ok(SetColumn(f3, MONTH, m.v))

\* cleanup2.py:7-19 as one function of the loaded frame.
C2_Normalize(frame) ==
    LET f1 == SetColumnNames(frame, CanonicalNames2(ColumnNames(frame)))
    IN  IF ~HasColumn(f1, MONTH) THEN Raise
        ELSE LET col == GetColumn(f1, MONTH)
                 f2  == SetColumn(f1, MONTH, [i \in 1..Len(col) |-> ReplaceMonth(col[i])])
                 m   == MonthAsTypeInt(GetColumn(f2, MONTH))
             IN  IF ~m.ok THEN Raise ELSE Ok(SetColumn(f2, MONTH, m.v))

\* ------------------------------------------------- model.py: the dashboard
\* The dashboard keeps the two tables it loads at startup (model.py:15-24),
\* four dcc.Store components and the controls of the view on display; every
\* callback is a function of the component values it is handed.
\*
\* Numbers are float64 in the program and exact rationals here; a missing
\* value (NaN) propagates through arithmetic and makes every comparison
\* false, as in numpy.

FAdd(a, b) == IF a.nan \/ b.nan THEN NaN ELSE RatAdd(a, b)

FNeg(a) == IF a.nan THEN NaN ELSE Rat(-a.n, a.d)

FSub(a, b) == FAdd(a, FNeg(b))

FMul(a, b) == IF a.nan \/ b.nan THEN NaN ELSE Rat(a.n * b.n, a.d * b.d)

\* a / b; the program divides only where the divisor is not zero.
FDiv(a, b) ==
    IF a.nan \/ b.nan \/ b.n = 0 THEN NaN
    ELSE IF b.n > 0 THEN Rat(a.n * b.d, a.d * b.n)
    ELSE Rat(-(a.n * b.d), a.d * (-b.n))

FGt(a, b) == ~a.nan /\ ~b.nan /\ a.n * b.d > b.n * a.d

\* Series.sum() / Series.mean() over a sequence of numbers, missing values
\* skipped; the mean of nothing is missing.
RECURSIVE FSumSkipNa(_)
FSumSkipNa(xs) ==
    IF xs = <<>> THEN Num(0)
    ELSE IF Head(xs).nan THEN FSumSkipNa(Tail(xs))
    ELSE RatAdd(Head(xs), FSumSkipNa(Tail(xs)))

FMeanSkipNa(xs) ==
    LET valid == SelectSeq(xs, LAMBDA x : ~x.nan)
    IN  IF valid = <<>> THEN NaN
        ELSE FDiv(FSumSkipNa(valid), Num(Len(valid)))

\* Position of the largest / smallest number (first one on ties), 0 when
\* every value is missing: Series.idxmax() / idxmin().
ArgMax(xs) ==
    IF \A i \in 1..Len(xs) : xs[i].nan THEN 0
    ELSE CHOOSE i \in 1..Len(xs) :
            /\ ~xs[i].nan
            /\ \A j \in 1..Len(xs) : ~FGt(xs[j], xs[i])
            /\ \A j \in 1..(i - 1) : xs[j].nan \/ FGt(xs[i], xs[j])

ArgMin(xs) ==
    IF \A i \in 1..Len(xs) : xs[i].nan THEN 0
    ELSE CHOOSE i \in 1..Len(xs) :
            /\ ~xs[i].nan
            /\ \A j \in 1..Len(xs) : ~FGt(xs[i], xs[j])
            /\ \A j \in 1..(i - 1) : xs[j].nan \/ FGt(xs[j], xs[i])

\* Series.max() / Series.min(): missing values skipped.
FMax(xs) == IF ArgMax(xs) = 0 THEN NaN ELSE xs[ArgMax(xs)]

FMin(xs) == IF ArgMin(xs) = 0 THEN NaN ELSE xs[ArgMin(xs)]

\* Series.diff(): the first entry is missing.
Diff(xs) ==
    [i \in 1..Len(xs) |-> IF i = 1 THEN NaN ELSE FSub(xs[i], xs[i - 1])]

\* ------------------------------------------------- model.py: the tables

ViewTypes == {"item-view", "state-view", "compare-view", "forecast-view"}

\* The value of a cleared dropdown, and of dict.get on a missing key.
None == "None"

\* Descriptions and states in sorted order (sorted(), model.py:23-24; the
\* capital letters of 'ALL India' sort before every other state).
DescriptionOrder == <<"Atta", "Dal", "Rice", "Salt">>

StateOrder == <<"ALL India", "Goa", "Kerala">>

ItemRow(d, y, m, v) ==
    [description |-> d, year |-> y, month |-> m, combined_index |-> v]

StateIndexRow(s, y, m, r, u, c) ==
    [state |-> s, year |-> y, month |-> m,
     rural |-> r, urban |-> u, combined |-> c]

\* itemIndex.csv as the dashboard reads it (the raw file: a value may be
\* missing).  Atta and Dal are short series of 2020, Rice covers all of
\* 2018 and seven months of 2019, Salt has missing values (its only value
\* of 2019 is one).
ItemTable ==
    [m \in 1..6 |-> ItemRow("Atta", 2020, m, Num(10 * m))]
    \o [m \in 1..4 |-> ItemRow("Dal", 2020, m, Num(98 + 2 * m))]
    \o [m \in 1..12 |-> ItemRow("Rice", 2018, m, Num(100 + m))]
    \o [m \in 1..7 |-> ItemRow("Rice", 2019, m, Num(120 - m))]
    \o << ItemRow("Salt", 2019, 12, NaN), ItemRow("Salt", 2020, 1, Num(5)),
          ItemRow("Salt", 2020, 2, NaN), ItemRow("Salt", 2020, 3, Num(7)) >>

\* stateIndex.csv.
StateTable ==
    [m \in 1..4 |-> StateIndexRow("ALL India", 2020, m,
                              Num(100 + m), Num(110 + m), Num(105 + m))]
    \o << StateIndexRow("ALL India", 2021, 1, Num(108), Num(118), Num(113)),
          StateIndexRow("Goa", 2020, 1, Num(90), Num(95), Num(92)),
          StateIndexRow("Goa", 2020, 4, Num(96), Num(99), Num(98)),
          StateIndexRow("Goa", 2021, 1, Num(97), Num(101), Num(99)),
          StateIndexRow("Kerala", 2021, 1, Num(120), Num(130), Num(125)) >>

\* sorted(item_df['description'].unique()), sorted(state_df['state'].unique())
items(idf) ==
    SelectSeq(DescriptionOrder,
              LAMBDA d : \E i \in 1..Len(idf) : idf[i].description = d)

states(sdf) ==
    SelectSeq(StateOrder, LAMBDA s : \E i \in 1..Len(sdf) : sdf[i].state = s)

\* df['year'].min(), df['year'].max()
YearMin(rows) ==
    CHOOSE y \in {rows[i].year : i \in 1..Len(rows)} :
        \A i \in 1..Len(rows) : y <= rows[i].year

YearMax(rows) ==
    CHOOSE y \in {rows[i].year : i \in 1..Len(rows)} :
        \A i \in 1..Len(rows) : y >= rows[i].year

\* Rows in date order (sort_values('date'), a stable sort).
DateKey(r) == 12 * r.year + r.month

RECURSIVE SortByDate(_)
SortByDate(rows) ==
    IF rows = <<>> THEN <<>>
    ELSE LET k == CHOOSE i \in 1..Len(rows) :
                    /\ \A j \in 1..Len(rows) : DateKey(rows[i]) <= DateKey(rows[j])
                    /\ \A j \in 1..(i - 1) : DateKey(rows[j]) > DateKey(rows[i])
         IN  <<rows[k]>> \o
             SortByDate([j \in 1..(Len(rows) - 1) |->
                            IF j < k THEN rows[j] ELSE rows[j + 1]])

\* ------------------------------------------------- model.py: the stores
\* A dcc.Store holds a dict: the set of its keys and their values (a key
\* that is not there has a fixed filler as value, never read).

ItemFields == {"item", "years", "viz_type"}
StateFields == {"state", "region_type", "years", "viz_type"}
CompareFields == {"items", "states", "region_type", "years", "active_tab",
                  "viz_type"}
ForecastFields == {"item", "hist_years", "period", "method"}

FieldsOf(view) ==
    CASE view = "item-view" -> ItemFields
      [] view = "state-view" -> StateFields
      [] view = "compare-view" -> CompareFields
      [] view = "forecast-view" -> ForecastFields

\* The values the controls of a view show when update_view_controls has
\* built them (model.py:157-322).
ControlDefaults(view, idf, sdf) ==
    CASE view = "item-view" ->
            [item |-> items(idf)[1], years |-> <<2018, 2023>>,
             viz_type |-> "line"]
      [] view = "state-view" ->
            [state |-> "ALL India", region_type |-> "combined",
             years |-> <<YearMin(sdf), YearMax(sdf)>>, viz_type |-> "line"]
      [] view = "compare-view" ->
            [items |-> IF Len(items(idf)) > 1
                       THEN <<items(idf)[1], items(idf)[2]>>
                       ELSE <<items(idf)[1]>>,
             states |-> IF Len(states(sdf)) > 1
                        THEN <<"ALL India", states(sdf)[2]>>
                        ELSE <<"ALL India">>,
             region_type |-> "combined", years |-> <<2018, 2023>>,
             active_tab |-> "compare-items", viz_type |-> "line"]
      [] view = "forecast-view" ->
            [item |-> items(idf)[1], hist_years |-> <<2020, 2024>>,
             period |-> 12, method |-> "linear"]

\* dcc.Store(data={}) (model.py:122-125).
EmptyStore(view, idf, sdf) ==
    [has |-> {}, v |-> ControlDefaults(view, idf, sdf)]

\* A lookup that ignores the default and answers with the filler.
GetIgnoringDefault(data, key, default) == data.v[key]

\* data.get(key, default)
Get(data, key, default) == IF key \in data.has THEN data.v[key] ELSE default

\* data = data or {}; data.update({...}); return data  (model.py:337-345,
\* 358-367, 384-395, 407-416): every key of the view is written from the
\* value its control shows now.
StoreSelections(view, values) == [has |-> FieldsOf(view), v |-> values]

\* ------------------------------------------------- model.py: figures
\* A figure is its kind, its title (text, the entities and the years put
\* into it) and its traces; a trace is a name and its points (x, y).  The
\* insights are a list of labelled numbers; a month is the number
\* 12 * year + month.  Number formatting (':.2f') is left out.

Chart(kind, text, subject, years, traces) ==
    [kind |-> kind, text |-> text, subject |-> subject, years |-> years,
     traces |-> traces]

\* px.line(title=...): a figure with a title and nothing drawn.
Placeholder(text, subject) == Chart("placeholder", text, subject, <<>>, <<>>)

Insight(label, value) == [label |-> label, value |-> value]

\* A plain string in the insights panel.
Message(text) == << Insight(text, NaN) >>

\* What update_visualization hands back: the (graph, insights) pair, or
\* the exception that left the callback.
Returned(chart, insights) ==
    [ok |-> TRUE, error |-> "", chart |-> chart, insights |-> insights]

Raised(e) ==
    [ok |-> FALSE, error |-> e, chart |-> Placeholder("", <<>>),
     insights |-> <<>>]

Column(rows, field) == [i \in 1..Len(rows) |-> rows[i][field]]

Trace(name, rows, xs, field) ==
    [name |-> name,
     points |-> [i \in 1..Len(rows) |-> [x |-> xs[i], y |-> rows[i][field]]]]

DateTrace(name, rows, field) ==
    Trace(name, rows, [i \in 1..Len(rows) |-> DateKey(rows[i])], field)

\* The members of a set of integers in increasing order.
RECURSIVE Sorted(_)
Sorted(S) ==
    IF S = {} THEN <<>>
    ELSE LET m == CHOOSE x \in S : \A y \in S : x <= y
         IN  <<m>> \o Sorted(S \ {m})

\* groupby(key)[field].mean(): one point per key, in key order.
GroupMean(rows, key, field) ==
    LET keys == Sorted({rows[i][key] : i \in 1..Len(rows)})
    IN  [k \in 1..Len(keys) |->
            [x |-> keys[k],
             y |-> FMeanSkipNa(Column(
                      SelectSeq(rows, LAMBDA r : r[key] = keys[k]), field))]]

\* ------------------------------------------------- model.py: item view

\* item_df[(description == item) & (year >= years[0]) & (year <= years[1])]
FilterItem(idf, item, years) ==
    SelectSeq(idf, LAMBDA r : /\ r.description = item
                              /\ r.year >= years[1] /\ r.year <= years[2])

\* filtered_df.pivot_table(index='year', columns='month',
\* values='combined_index'): the mean of every (year, month) group; groups,
\* rows and columns that hold no number are dropped.
PivotMonths(rows) ==
    {rows[i].month : i \in {j \in 1..Len(rows) : ~rows[j].combined_index.nan}}

PivotYears(rows) ==
    {rows[i].year : i \in {j \in 1..Len(rows) : ~rows[j].combined_index.nan}}

PivotTable(rows) ==
    LET ys == Sorted(PivotYears(rows))
        ms == Sorted(PivotMonths(rows))
    IN  [k \in 1..Len(ys) |->
            [name |-> <<"Year", ys[k]>>,
             points |-> [c \in 1..Len(ms) |->
                [x |-> ms[c],
                 y |-> FMeanSkipNa(Column(
                          SelectSeq(rows, LAMBDA r : r.year = ys[k]
                                                     /\ r.month = ms[c]),
                          "combined_index"))]]]]

\* A plausible slip: one full year of rows is enough for the figure.
SeasonalChartFromTwelve(rows, item, years) ==
    IF Len(rows) >= 12
    THEN LET ys == Sorted({rows[i].year : i \in 1..Len(rows)})
             drawn == SelectSeq(ys, LAMBDA y :
                        Len(SelectSeq(rows, LAMBDA r : r.year = y)) > 6)
         IN  Chart("seasonal", "Seasonal Pattern", <<item>>, years,
                   << [name |-> <<"Monthly Average", 0>>,
                       points |-> GroupMean(rows, "month", "combined_index")] >>
                   \o [k \in 1..Len(drawn) |->
                        LET yd == SelectSeq(rows, LAMBDA r : r.year = drawn[k])
                        IN  Trace(<<"Year", drawn[k]>>, yd,
                                  Column(yd, "month"), "combined_index")])
    ELSE Placeholder("Insufficient data for seasonal analysis", <<item>>)

\* model.py:479-521: the seasonal figure needs more than twelve rows, and
\* draws a year only when it has more than six.
SeasonalChart(rows, item, years) ==
    IF Len(rows) > 12
    THEN LET ys == Sorted({rows[i].year : i \in 1..Len(rows)})
             drawn == SelectSeq(ys, LAMBDA y :
                        Len(SelectSeq(rows, LAMBDA r : r.year = y)) > 6)
         IN  Chart("seasonal", "Seasonal Pattern", <<item>>, years,
                   << [name |-> <<"Monthly Average", 0>>,
                       points |-> GroupMean(rows, "month", "combined_index")] >>
                   \o [k \in 1..Len(drawn) |->
                        LET yd == SelectSeq(rows, LAMBDA r : r.year = drawn[k])
                        IN  Trace(<<"Year", drawn[k]>>, yd,
                                  Column(yd, "month"), "combined_index")])
    ELSE Placeholder("Insufficient data for seasonal analysis", <<item>>)

\* model.py:447-521: the figure of the item view, or the exception of
\* px.imshow, which refuses twelve x labels for a table that has not twelve
\* columns.  A chart kind outside the four leaves fig unbound.
ItemChart(rows, item, years, viz_type) ==
    CASE viz_type = "line" ->
            Returned(Chart("line", "Price Index Trend", <<item>>, years,
                     << DateTrace(<<"combined_index", 0>>, rows,
                                  "combined_index") >>), <<>>)
      [] viz_type = "bar" ->
            Returned(Chart("bar", "Price Index Trend", <<item>>, years,
                     << DateTrace(<<"combined_index", 0>>, rows,
                                  "combined_index") >>), <<>>)
      [] viz_type = "heatmap" ->
            IF Cardinality(PivotMonths(rows)) # 12 THEN Raised("ValueError")
            ELSE Returned(Chart("heatmap", "Monthly Price Index Heatmap",
                                <<item>>, years, PivotTable(rows)), <<>>)
      [] viz_type = "seasonal" ->
            Returned(SeasonalChart(rows, item, years), <<>>)
      [] OTHER -> Raised("UnboundLocalError")

\* model.py:523-554.  idxmax() of a column without a number is not a row
\* label, and .loc fails on it.
ItemInsights(rows) ==
    LET ci == Column(rows, "combined_index")
        empty == rows = <<>>
        start_val == IF empty THEN Num(0) ELSE ci[1]
        end_val == IF empty THEN Num(0) ELSE ci[Len(ci)]
        total_change == FSub(end_val, start_val)
        percent_change == IF FGt(start_val, Num(0))
                          THEN FMul(FDiv(total_change, start_val), Num(100))
                          ELSE Num(0)
        monthly_changes == Diff(ci)
    IN  IF ~empty /\ ArgMax(ci) = 0 THEN Raised("KeyError")
        ELSE Returned(Placeholder("", <<>>),
          << Insight("Total change", total_change),
             Insight("Total change percent", percent_change),
             Insight("Average monthly change",
                     IF empty THEN Num(0) ELSE FMeanSkipNa(monthly_changes)),
             Insight("Highest value", end_val),
             Insight("Highest value month",
                     IF empty THEN NaN ELSE Num(DateKey(rows[ArgMax(ci)]))),
             Insight("Lowest value", start_val),
             Insight("Lowest value month",
                     IF empty THEN NaN ELSE Num(DateKey(rows[ArgMin(ci)]))),
             Insight("Largest monthly increase",
                     IF empty THEN Num(0) ELSE FMax(monthly_changes)),
             Insight("Largest monthly decrease",
                     IF empty THEN Num(0) ELSE FMin(monthly_changes)) >>)

\* model.py:436-556
ItemView(idf, item_data) ==
    LET item == Get(item_data, "item", None)
        item_years == Get(item_data, "years", <<2018, 2023>>)
        item_viz_type == Get(item_data, "viz_type", "line")
        filtered_df == FilterItem(idf, item, item_years)
        fig == ItemChart(filtered_df, item, item_years, item_viz_type)
        insights == ItemInsights(filtered_df)
    IN  IF item_viz_type = "heatmap" /\ ~fig.ok THEN fig
        ELSE IF ~insights.ok THEN insights
        ELSE IF ~fig.ok THEN fig
        ELSE Returned(fig.chart, insights.insights)

\* ------------------------------------------------- model.py: state view

\* state_df[(state == s) & (year >= years[0]) & (year <= years[1])]: a new
\* frame (indexing with a boolean mask copies the rows it selects).
FilterState(sdf, state, years) ==
    SelectSeq(sdf, LAMBDA r : /\ r.state = state
                              /\ r.year >= years[1] /\ r.year <= years[2])

\* filtered_df['quarter'] = filtered_df['date'].dt.to_period('Q').astype(str)
\* (model.py:584): the quarter 4 * year + q of every row, written into the
\* filtered frame.
WithQuarter(rows) ==
    [i \in 1..Len(rows) |->
        [f \in DOMAIN rows[i] \cup {"quarter"} |->
            IF f = "quarter"
            THEN 4 * rows[i].year + ((rows[i].month - 1) \div 3)
            ELSE rows[i][f]]]

\* The quarterly bar chart writing its quarter column through to the rows
\* of state_df it selected, as if the filtered frame were a view of it.
StateDfAliased(sdf, view_type, data) ==
    LET state_data == data.state_data
        state == Get(state_data, "state", None)
        years == Get(state_data, "years", <<YearMin(sdf), YearMax(sdf)>>)
        viz == Get(state_data, "viz_type", "line")
    IN  IF view_type = "state-view" /\ state_data.has # {} /\ viz = "bar"
        THEN [i \in 1..Len(sdf) |->
                IF /\ sdf[i].state = state
                   /\ sdf[i].year >= years[1] /\ sdf[i].year <= years[2]
                THEN WithQuarter(<<sdf[i]>>)[1]
                ELSE sdf[i]]
        ELSE sdf

\* state_df once update_visualization has returned (model.py:567-593): the
\* only assignment of the callback, filtered_df['quarter'] = ..., lands in
\* the frame that boolean indexing has copied out of state_df, so the
\* table is the one it was.
StateDfAfter(sdf, view_type, data) == sdf

\* model.py:573-614
StateChart(sdf, rows, state, years, region_type, viz_type) ==
    CASE viz_type = "line" ->
            Returned(Chart("line", "Price Index for Cereals",
                     <<state, region_type>>, years,
                     << DateTrace(<<region_type, 0>>, rows, region_type) >>),
                     <<>>)
      [] viz_type = "bar" ->
            Returned(Chart("bar", "Quarterly Price Index for Cereals",
                     <<state, region_type>>, years,
                     << [name |-> <<region_type, 0>>,
                         points |-> GroupMean(WithQuarter(rows), "quarter",
                                              region_type)] >>), <<>>)
      [] viz_type = "map" ->
            LET latest_year == years[2]
                of_year == SelectSeq(sdf, LAMBDA r : r.year = latest_year)
                latest_month ==
                    IF of_year = <<>> THEN 0
                    ELSE CHOOSE m \in {of_year[i].month : i \in 1..Len(of_year)} :
                            \A i \in 1..Len(of_year) : m >= of_year[i].month
                map_df == SelectSeq(of_year, LAMBDA r : r.month = latest_month)
            IN  Returned(Chart("map", "Price Index Across India",
                         <<region_type>>, <<latest_year, latest_month>>,
                         [i \in 1..Len(map_df) |->
                            [name |-> <<map_df[i].state, 0>>,
                             points |-> << [x |-> DateKey(map_df[i]),
                                            y |-> map_df[i][region_type]] >>]]),
                         <<>>)
      [] OTHER -> Raised("UnboundLocalError")

\* model.py:616-647
StateInsights(sdf, rows, state, years, region_type) ==
    LET col == Column(rows, region_type)
        empty == rows = <<>>
        start_val == IF empty THEN Num(0) ELSE col[1]
        end_val == IF empty THEN Num(0) ELSE col[Len(col)]
        total_change == FSub(end_val, start_val)
        percent_change == IF FGt(start_val, Num(0))
                          THEN FMul(FDiv(total_change, start_val), Num(100))
                          ELSE Num(0)
        national_df == FilterState(sdf, "ALL India", years)
        nat_end_val == IF national_df = <<>> THEN Num(0)
                       ELSE national_df[Len(national_df)][region_type]
        diff_from_national == FSub(end_val, nat_end_val)
        diff_percent == IF FGt(nat_end_val, Num(0))
                        THEN FMul(FDiv(diff_from_national, nat_end_val),
                                  Num(100))
                        ELSE Num(0)
    IN  << Insight("Total change", total_change),
           Insight("Total change percent", percent_change),
           Insight("Average monthly change",
                   IF empty THEN Num(0) ELSE FMeanSkipNa(Diff(col))),
           Insight("Starting index", start_val),
           Insight("Current index", end_val) >>
        \o (IF ~empty /\ state # "ALL India"
            THEN << Insight("Difference from national average",
                            diff_from_national),
                    Insight("Difference from national average percent",
                            diff_percent) >>
            ELSE <<>>)

\* model.py:559-649
StateView(sdf, state_data) ==
    LET state == Get(state_data, "state", None)
        region_type == Get(state_data, "region_type", "combined")
        state_years == Get(state_data, "years", <<YearMin(sdf), YearMax(sdf)>>)
        state_viz_type == Get(state_data, "viz_type", "line")
        filtered_df == FilterState(sdf, state, state_years)
        fig == StateChart(sdf, filtered_df, state, state_years, region_type,
                          state_viz_type)
    IN  IF ~fig.ok THEN fig
        ELSE Returned(fig.chart, StateInsights(sdf, filtered_df, state,
                                               state_years, region_type))

\* ------------------------------------------------- model.py: compare view

\* table[(table[key].isin(selected)) & (year >= years[0]) & (year <= years[1])]
FilterIsIn(table, key, selected, years) ==
    SelectSeq(table, LAMBDA r : /\ r[key] \in Range(selected)
                                /\ r.year >= years[1] /\ r.year <= years[2])

\* model.py:668-695 and 725-753: one trace per entity (the tables list
\* their entities in sorted order); the radar draws the mean of each.
CompareChart(rows, key, field, order, subject, years, viz_type) ==
    LET present == SelectSeq(order,
                     LAMBDA e : \E i \in 1..Len(rows) : rows[i][key] = e)
        of(e) == SelectSeq(rows, LAMBDA r : r[key] = e)
    IN  CASE viz_type \in {"line", "bar"} ->
                Returned(Chart(viz_type, "Comparative Analysis", subject,
                         years,
                         [k \in 1..Len(present) |->
                            DateTrace(<<present[k], 0>>, of(present[k]),
                                      field)]), <<>>)
          [] viz_type = "radar" ->
                Returned(Chart("radar", "Radar Chart", subject, years,
                         [k \in 1..Len(present) |->
                            [name |-> <<present[k], 0>>,
                             points |-> << [x |-> 0,
                                 y |-> FMeanSkipNa(Column(of(present[k]),
                                                          field))] >>]]),
                         <<>>)
          [] OTHER -> Raised("UnboundLocalError")

\* model.py:697-716 and 755-777: the percent change of every selected
\* entity that has rows, in the order of the selection.
RECURSIVE CompareInsights(_, _, _, _)
CompareInsights(rows, key, field, selected) ==
    IF selected = <<>> THEN <<>>
    ELSE LET mine == SelectSeq(rows, LAMBDA r : r[key] = Head(selected))
             start_val == mine[1][field]
             end_val == mine[Len(mine)][field]
             percent_change ==
                IF FGt(start_val, Num(0))
                THEN FMul(FDiv(FSub(end_val, start_val), start_val), Num(100))
                ELSE Num(0)
             rest == CompareInsights(rows, key, field, Tail(selected))
         IN  IF mine = <<>> THEN rest
             ELSE << Insight(Head(selected), percent_change) >> \o rest

\* model.py:652-779
CompareView(idf, sdf, compare_data) ==
    LET compare_items == Get(compare_data, "items", <<items(idf)[1]>>)
        compare_states == Get(compare_data, "states", <<"ALL India">>)
        compare_region == Get(compare_data, "region_type", "combined")
        compare_years == Get(compare_data, "years", <<2018, 2023>>)
        compare_tab == Get(compare_data, "active_tab", "compare-items")
        compare_viz_type == Get(compare_data, "viz_type", "line")
        by_item == compare_tab = "compare-items"
        filtered_df ==
            IF by_item
            THEN FilterIsIn(idf, "description", compare_items, compare_years)
            ELSE FilterIsIn(sdf, "state", compare_states, compare_years)
        key == IF by_item THEN "description" ELSE "state"
        field == IF by_item THEN "combined_index" ELSE compare_region
        fig == CompareChart(filtered_df, key, field,
                   IF by_item THEN DescriptionOrder ELSE StateOrder,
                   IF by_item THEN <<"Items">> ELSE <<"States", compare_region>>,
                   compare_years, compare_viz_type)
    IN  IF ~fig.ok THEN fig
        ELSE Returned(fig.chart,
                CompareInsights(filtered_df, key, field,
                    IF by_item THEN compare_items ELSE compare_states))

\* ------------------------------------------------- model.py: forecast view

\* A regression through the origin (fit_intercept=False).
LinearFitNoIntercept(y) ==
    LET n == Len(y)
        sxx == FSumSkipNa([i \in 1..n |-> Num((i - 1) * (i - 1))])
        sxy == FSumSkipNa([i \in 1..n |-> FMul(Num(i - 1), y[i])])
    IN  [coef |-> IF sxx.n = 0 THEN Num(0) ELSE FDiv(sxy, sxx),
         intercept |-> Num(0)]

\* LinearRegression().fit(X, y) for X = 0, 1, ..., n - 1 (model.py:799-805):
\* the least-squares line, here in exact arithmetic.  With a single point
\* the slope is 0 and the line passes through it.
LinearFit(y) ==
    LET n == Len(y)
        xbar == FDiv(Num(n - 1), Num(2))
        ybar == FDiv(FSumSkipNa(y), Num(n))
        dx(i) == FSub(Num(i - 1), xbar)
        sxx == FSumSkipNa([i \in 1..n |-> FMul(dx(i), dx(i))])
        sxy == FSumSkipNa([i \in 1..n |-> FMul(dx(i), FSub(y[i], ybar))])
        coef == IF sxx.n = 0 THEN Num(0) ELSE FDiv(sxy, sxx)
    IN  [coef |-> coef, intercept |-> FSub(ybar, FMul(coef, xbar))]

\* model.predict: the value of the line at position x (0-based).
Predict(fit, x) == FAdd(fit.intercept, FMul(fit.coef, Num(x)))

\* np.std(residuals) ** 2: the mean of the squared residuals (their mean
\* is 0 for a least-squares line with intercept).
ResidualVariance(y, pred) ==
    FDiv(FSumSkipNa([i \in 1..Len(y) |->
            FMul(FSub(y[i], pred[i]), FSub(y[i], pred[i]))]), Num(Len(y)))

\* model.score(X, y): 1 - SS_res / SS_tot; undefined for fewer than two
\* samples; for a constant y, 1 when the fit is perfect and 0 otherwise.
RSquared(y, pred) ==
    LET n == Len(y)
        ybar == FDiv(FSumSkipNa(y), Num(n))
        ss_res == FSumSkipNa([i \in 1..n |->
                     FMul(FSub(y[i], pred[i]), FSub(y[i], pred[i]))])
        ss_tot == FSumSkipNa([i \in 1..n |->
                     FMul(FSub(y[i], ybar), FSub(y[i], ybar))])
    IN  IF n < 2 THEN NaN
        ELSE IF ss_tot.n = 0
        THEN (IF ss_res.n = 0 THEN Num(1) ELSE Num(0))
        ELSE FSub(Num(1), FDiv(ss_res, ss_tot))

\* rolling(window=w, min_periods=1): a shorter history is averaged as far
\* as it goes.
RollingMeanPartial(xs, w) ==
    [i \in 1..Len(xs) |->
        LET from == IF i < w THEN 1 ELSE i - w + 1
        IN  IF \E j \in from..i : xs[j].nan THEN NaN
            ELSE FDiv(FSumSkipNa([j \in 1..(i - from + 1) |-> xs[from + j - 1]]),
                      Num(i - from + 1))]

\* An expanding mean: every value seen so far, whatever the window.
RollingMeanExpanding(xs, w) ==
    [i \in 1..Len(xs) |->
        IF i < w \/ \E j \in 1..i : xs[j].nan THEN NaN
        ELSE FDiv(FSumSkipNa([j \in 1..i |-> xs[j]]), Num(i))]

\* Series.rolling(window=w).mean(): missing until w values are there, and
\* wherever the window holds a missing value.
RollingMean(xs, w) ==
    [i \in 1..Len(xs) |->
        IF i < w \/ \E j \in (i - w + 1)..i : xs[j].nan THEN NaN
        ELSE FDiv(FSumSkipNa([j \in 1..w |-> xs[i - w + j]]), Num(w))]

\* alpha = 0.2 (model.py:984), as the weight (1 - alpha) = 4/5 of the past.
alpha == Rat(1, 5)

\* Series.ewm(alpha=alpha).mean() with the defaults adjust=True and
\* ignore_na=False: a running weighted mean whose older weights decay by
\* (1 - alpha) at every position; a missing value repeats the mean so far.
RECURSIVE EwmFrom(_, _, _, _)
EwmFrom(xs, i, weighted, old_wt) ==
    IF i > Len(xs) THEN <<>>
    ELSE LET cur == xs[i]
             decayed == FMul(old_wt, FSub(Num(1), alpha))
             w2 == IF weighted.nan THEN cur
                   ELSE IF cur.nan THEN weighted
                   ELSE FDiv(FAdd(FMul(decayed, weighted), cur),
                             FAdd(decayed, Num(1)))
             wt2 == IF weighted.nan THEN old_wt
                    ELSE IF cur.nan THEN decayed
                    ELSE FAdd(decayed, Num(1))
         IN  <<w2>> \o EwmFrom(xs, i + 1, w2, wt2)

Ewm(xs) == EwmFrom(xs, 1, NaN, Num(1))

\* np.tile(value, period)
Tile(value, period) == [k \in 1..period |-> value]

\* The figure of a forecast (model.py:820-864, 932-958, 1000-1026): the
\* history, the computed series over it and the projection over the
\* months that follow the last date.
ForecastChart(rows, item, method, computed, forecast_values) ==
    Chart("forecast", "Price Index Forecast", <<item, method>>, <<>>,
          << DateTrace(<<"Historical Data", 0>>, rows, "combined_index"),
             [name |-> <<"Computed", 0>>,
              points |-> [i \in 1..Len(rows) |->
                            [x |-> DateKey(rows[i]), y |-> computed[i]]]],
             [name |-> <<"Forecast", 0>>,
              points |-> [k \in 1..Len(forecast_values) |->
                            [x |-> DateKey(rows[Len(rows)]) + k,
                             y |-> forecast_values[k]]]] >>)

\* model.py:866-870, 960-964, 1028-1032
ForecastInsights(y, forecast_values) ==
    LET last_historical == y[Len(y)]
        forecast_end == forecast_values[Len(forecast_values)]
        forecast_change == FSub(forecast_end, last_historical)
        forecast_percent ==
            IF FGt(last_historical, Num(0))
            THEN FMul(FDiv(forecast_change, last_historical), Num(100))
            ELSE Num(0)
    IN  << Insight("Current index value", last_historical),
           Insight("Forecasted value", forecast_end),
           Insight("Expected change", forecast_change),
           Insight("Expected change percent", forecast_percent) >>

\* A forecast that indexes the last element of an empty history.
NoDataUnguarded == Raised("IndexError")

\* model.py:795-797: what an empty history is answered with.
NoDataAvailable ==
    Returned(Placeholder("No data available for the selected parameters",
                         <<>>),
             Message("No data available for forecasting"))

\* model.py:782-1058.  An empty selection gets the "No data available"
\* pair; LinearRegression refuses a history with a missing value.
ForecastView(idf, forecast_data) ==
    LET forecast_item == Get(forecast_data, "item", None)
        historical_years == Get(forecast_data, "hist_years", <<2020, 2024>>)
        forecast_period == Get(forecast_data, "period", 12)
        forecast_method == Get(forecast_data, "method", "linear")
        filtered_df == SortByDate(FilterItem(idf, forecast_item,
                                             historical_years))
        y == Column(filtered_df, "combined_index")
        n == Len(y)
    IN  IF filtered_df = <<>> THEN NoDataAvailable
        ELSE CASE forecast_method = "linear" ->
                IF \E i \in 1..n : y[i].nan THEN Raised("ValueError")
                ELSE LET model == LinearFit(y)
                         historical_pred == [i \in 1..n |-> Predict(model, i - 1)]
                         forecast_values ==
                            [k \in 1..forecast_period |->
                                Predict(model, n + k - 1)]
                         chart == ForecastChart(filtered_df, forecast_item,
                                     "linear", historical_pred, forecast_values)
                     IN  Returned(
                            [chart EXCEPT !.traces = @ \o
                                << [name |-> <<"Residual variance", 0>>,
                                    points |-> << [x |-> 0,
                                        y |-> ResidualVariance(y,
                                                 historical_pred)] >>] >>],
                            ForecastInsights(y, forecast_values) \o
                            << Insight("Monthly growth rate", model.coef),
                               Insight("Annual growth rate",
                                       FMul(model.coef, Num(12))),
                               Insight("R squared",
                                       RSquared(y, historical_pred)) >>)
               [] forecast_method = "ma" ->
                LET window_size == forecast_period \div 2
                    moving_avg == RollingMean(y, window_size)
                    forecast_values == Tile(moving_avg[n], forecast_period)
                IN  Returned(ForecastChart(filtered_df, forecast_item, "ma",
                                           moving_avg, forecast_values),
                             ForecastInsights(y, forecast_values))
               [] forecast_method = "exp" ->
                LET exp_smooth == Ewm(y)
                    forecast_values == Tile(exp_smooth[n], forecast_period)
                IN  Returned(ForecastChart(filtered_df, forecast_item, "exp",
                                           exp_smooth, forecast_values),
                             ForecastInsights(y, forecast_values))
               [] OTHER -> Raised("UnboundLocalError")

\* ------------------------------------------------- model.py: the callbacks

\* A plausible slip: the forecast view takes its item from the store of
\* the item view whenever that store holds one.
update_visualizationSharedItem(view_type, data, idf, sdf) ==
    IF view_type = "item-view" /\ data.item_data.has # {}
    THEN ItemView(idf, data.item_data)
    ELSE IF view_type = "state-view" /\ data.state_data.has # {}
    THEN StateView(sdf, data.state_data)
    ELSE IF view_type = "compare-view" /\ data.compare_data.has # {}
    THEN CompareView(idf, sdf, data.compare_data)
    ELSE IF view_type = "forecast-view" /\ data.forecast_data.has # {}
    THEN ForecastView(idf,
            IF "item" \in data.item_data.has
            THEN [has |-> data.forecast_data.has \cup {"item"},
                  v |-> [data.forecast_data.v EXCEPT
                            !.item = data.item_data.v.item]]
            ELSE data.forecast_data)
    ELSE Returned(Placeholder("Please select parameters to visualize data",
                              <<>>),
                  Message("Select parameters to see insights"))

\* update_visualization once a component has triggered it (model.py:435-1063).
update_visualization(view_type, data, idf, sdf) ==
    IF view_type = "item-view" /\ data.item_data.has # {}
    THEN ItemView(idf, data.item_data)
    ELSE IF view_type = "state-view" /\ data.state_data.has # {}
    THEN StateView(sdf, data.state_data)
    ELSE IF view_type = "compare-view" /\ data.compare_data.has # {}
    THEN CompareView(idf, sdf, data.compare_data)
    ELSE IF view_type = "forecast-view" /\ data.forecast_data.has # {}
    THEN ForecastView(idf, data.forecast_data)
    ELSE Returned(Placeholder("Please select parameters to visualize data",
                              <<>>),
                  Message("Select parameters to see insights"))

\* update_visualization on the first call of a page load, when nothing
\* has triggered it (model.py:430-433).
NotTriggered ==
    Returned(Placeholder("Please select parameters to visualize data", <<>>),
             Message("Select parameters to see insights"))

\* ------------------------------------------------- check.py
\* The audit reads itemIndex.csv and prints four reports.  Every statement
\* builds a new object from df (a count, a filtered frame, a statistic) and
\* prints from it; none assigns to df and none writes a file.

\* The numbers of xs that are not missing, in increasing order.
RECURSIVE SortedValues(_)
SortedValues(xs) ==
    LET valid == SelectSeq(xs, LAMBDA x : ~x.nan)
    IN  IF valid = <<>> THEN <<>>
        ELSE LET k == CHOOSE i \in 1..Len(valid) :
                        \A j \in 1..Len(valid) : ~FGt(valid[i], valid[j])
             IN  <<valid[k]>> \o
                 SortedValues([j \in 1..(Len(valid) - 1) |->
                                IF j < k THEN valid[j] ELSE valid[j + 1]])

\* Series.quantile(qn / qd): linear interpolation between the two order
\* statistics around position q * (n - 1); missing for an empty column.
Quantile(xs, qn, qd) ==
    LET v == SortedValues(xs)
        n == Len(v)
        lower == (qn * (n - 1)) \div qd
        frac == Rat((qn * (n - 1)) % qd, qd)
    IN  IF n = 0 THEN NaN
        ELSE IF frac.n = 0 THEN v[lower + 1]
        ELSE FAdd(v[lower + 1],
                  FMul(frac, FSub(v[lower + 2], v[lower + 1])))

\* A plausible slip: a value that sits on a fence counts as outside it.
OutliersInclusive(rows) ==
    LET ci == Column(rows, "combined_index")
        Q1 == Quantile(ci, 1, 4)
        Q3 == Quantile(ci, 3, 4)
        reach == FMul(Rat(3, 2), FSub(Q3, Q1))
    IN  SelectSeq(rows, LAMBDA r :
            /\ ~r.combined_index.nan /\ ~Q1.nan
            /\ \/ ~FGt(r.combined_index, FSub(Q1, reach))
               \/ ~FGt(FAdd(Q3, reach), r.combined_index))

\* check.py:21-24: the rows whose combined_index lies outside
\* [Q1 - 1.5 * IQR, Q3 + 1.5 * IQR]; a missing value is outside nothing.
Outliers(rows) ==
    LET ci == Column(rows, "combined_index")
        Q1 == Quantile(ci, 1, 4)
        Q3 == Quantile(ci, 3, 4)
        IQR == FSub(Q3, Q1)
        reach == FMul(Rat(3, 2), IQR)
    IN  SelectSeq(rows, LAMBDA r :
            \/ FGt(FSub(Q1, reach), r.combined_index)
            \/ FGt(r.combined_index, FAdd(Q3, reach)))

\* The parts of s between its dots.
RECURSIVE SplitDots(_)
SplitDots(s) ==
    IF \A i \in 1..Len(s) : s[i] # "." THEN <<s>>
    ELSE LET k == CHOOSE i \in 1..Len(s) :
                    s[i] = "." /\ \A j \in 1..(i - 1) : s[j] # "."
         IN  <<SubSeq(s, 1, k - 1)>> \o SplitDots(SubSeq(s, k + 1, Len(s)))

\* \w of an ASCII string.
IsWordChar(c) ==
    \/ IsDigit(c) \/ c = "_"
    \/ \E i \in 1..Len(UpperChars) : UpperChars[i] = c \/ LowerChars[i] = c

\* re.match(r'^\d+\.\d+\.\d+\.\d+\.\d+\.\w+$', s): five runs of digits and
\* a run of word characters, joined by dots, up to the end of the string
\* or up to a newline that ends it.
MatchesItemCode(s) ==
    LET exact(u) ==
            LET parts == SplitDots(u)
            IN  /\ Len(parts) = 6
                /\ \A k \in 1..5 : AllDigits(parts[k])
                /\ Len(parts[6]) > 0
                /\ \A i \in 1..Len(parts[6]) : IsWordChar(parts[6][i])
    IN  \/ exact(s)
        \/ EndsWith(s, <<"\n">>) /\ exact(DropLast(s, 1))

\* check.py:27: df[~df['item_code'].str.match(pattern, na=False)]; whatever
\* is not a string counts as no match.
InvalidCodes(rows) ==
    SelectSeq(rows, LAMBDA r :
        ~(r.item_code.t = "str" /\ MatchesItemCode(r.item_code.s)))

\* A valid code, a provisional one, a valid one followed by a line break (a
\* quoted cell of the file may hold one), and a missing one.
CKCodes ==
    { Str(Code5 \o <<"X">>), Str(Code5 \o <<"X", ".", "P">>),
      Str(Code5 \o <<"X", "\n">>), Missing }

CKValues == {NaN, Num(1), Num(100)}

CKRows == [item_code : CKCodes, combined_index : CKValues]

\* The series 10, 12, 11, 13, 200 under one valid item code.
CKExample ==
    [i \in 1..5 |->
        [item_code |-> Str(Code5 \o <<"X">>),
         combined_index |-> Num(<<10, 12, 11, 13, 200>>[i])]]

CK_Init ==
    /\ script = "check"
    /\ pc = "read_csv"
    /\ src \in SeqsUpTo(CKRows, MaxRows) \cup {CKExample}
    /\ df = <<>>
    /\ hist = <<>>
    /\ out = NoFile
    /\ err = "none"
    /\ printed = <<>>

Printed(check, values) == [check |-> check, values |-> values]

\* check.py:5
CK_ReadCsv ==
    /\ script = "check" /\ pc = "read_csv"
    /\ df' = src
    /\ hist' = Append(hist, df)
    /\ pc' = "isnull"
    /\ UNCHANGED <<script, src, out, err, printed>>

\* check.py:8-9: the count of missing cells of every column.
CK_IsNull ==
    /\ script = "check" /\ pc = "isnull"
    /\ printed' = Append(printed, Printed("Missing Values",
          << Num(Len(SelectSeq(df, LAMBDA r : r.item_code.t = "nan"))),
             Num(Len(SelectSeq(df, LAMBDA r : r.combined_index.nan))) >>))
    /\ hist' = Append(hist, df)
    /\ pc' = "duplicated"
    /\ UNCHANGED <<script, src, df, out, err>>

\* A plausible slip: the duplicate check drops the repeats from df itself
\* (drop_duplicates(inplace=True)) instead of counting them in a copy.
CK_DropDuplicates ==
    /\ script = "check" /\ pc = "duplicated"
    /\ printed' = Append(printed, Printed("Number of duplicate rows",
          << Num(Cardinality({i \in 1..Len(df) : Duplicated(df, i)})) >>))
    /\ df' = KeepFirstFrom(df, 1)
    /\ hist' = Append(hist, df)
    /\ pc' = "describe"
    /\ UNCHANGED <<script, src, out, err>>

\* check.py:12-13: the rows that repeat an earlier row.
CK_Duplicated ==
    /\ script = "check" /\ pc = "duplicated"
    /\ printed' = Append(printed, Printed("Number of duplicate rows",
          << Num(Cardinality({i \in 1..Len(df) : Duplicated(df, i)})) >>))
    /\ hist' = Append(hist, df)
    /\ pc' = "describe"
    /\ UNCHANGED <<script, src, df, out, err>>

\* check.py:16-17: count, mean, min, quartiles and max of combined_index
\* (the standard deviation, a square root, is left out of the report).
CK_Describe ==
    /\ script = "check" /\ pc = "describe"
    /\ LET ci == Column(df, "combined_index")
       IN  printed' = Append(printed, Printed("Combined Index Statistics",
              << Num(Len(SortedValues(ci))), FMeanSkipNa(ci), FMin(ci),
                 Quantile(ci, 1, 4), Quantile(ci, 1, 2), Quantile(ci, 3, 4),
                 FMax(ci) >>))
    /\ hist' = Append(hist, df)
    /\ pc' = "outliers"
    /\ UNCHANGED <<script, src, df, out, err>>

\* check.py:20-24
CK_Outliers ==
    /\ script = "check" /\ pc = "outliers"
    /\ printed' = Append(printed, Printed("Number of outliers",
          << Num(Len(Outliers(df))) >>))
    /\ hist' = Append(hist, df)
    /\ pc' = "item_codes"
    /\ UNCHANGED <<script, src, df, out, err>>

\* check.py:27-28.  A column without a single string is not an object
\* column, and its .str accessor raises AttributeError.
CK_ItemCodes ==
    /\ script = "check" /\ pc = "item_codes"
    /\ hist' = Append(hist, df)
    /\ IF df # <<>> /\ \A i \in 1..Len(df) : df[i].item_code.t # "str"
       THEN /\ pc' = "failed" /\ err' = "AttributeError"
            /\ printed' = printed
       ELSE /\ pc' = "done" /\ err' = err
            /\ printed' = Append(printed,
                  Printed("Number of invalid item codes",
                          << Num(Len(InvalidCodes(df))) >>))
    /\ UNCHANGED <<script, src, df, out>>

\* ------------------------------------------------------------ specification

\* The scripts run on their own: no dashboard is serving.
NoDashboard ==
    /\ tabs = "none" /\ controls = <<>> /\ stores = <<>>
    /\ item_df = <<>> /\ state_df = <<>> /\ rendered = <<>>
    /\ clicks = 0 /\ chosen = <<>>

Init ==
    \/ (EA_Init \/ RP_Init \/ CU_Init \/ C2_Init) /\ NoDashboard
                                                  /\ printed = <<>>
    \/ CK_Init /\ NoDashboard

\* One statement of the running script; the dashboard is not involved.
Next ==
    \/ EA_ReadCsv /\ UNCHANGED <<dashVars, printed>>
    \/ EA_DropDuplicates /\ UNCHANGED <<dashVars, printed>>
    \/ EA_Ffill /\ UNCHANGED <<dashVars, printed>>
    \/ EA_FillnaMean /\ UNCHANGED <<dashVars, printed>>
    \/ EA_ToCsv /\ UNCHANGED <<dashVars, printed>>
    \/ RP_ReadCsv /\ UNCHANGED <<dashVars, printed>>
    \/ RP_StrReplace /\ UNCHANGED <<dashVars, printed>>
    \/ RP_ToCsv /\ UNCHANGED <<dashVars, printed>>
    \/ CU_ReadCsv /\ UNCHANGED <<dashVars, printed>>
    \/ CU_Columns /\ UNCHANGED <<dashVars, printed>>
    \/ CU_YearAsType /\ UNCHANGED <<dashVars, printed>>
    \/ CU_MonthStrip /\ UNCHANGED <<dashVars, printed>>
    \/ CU_MonthCheck /\ UNCHANGED <<dashVars, printed>>
    \/ CU_MonthAsType /\ UNCHANGED <<dashVars, printed>>
    \/ CU_ToCsv /\ UNCHANGED <<dashVars, printed>>
    \/ C2_ReadCsv /\ UNCHANGED <<dashVars, printed>>
    \/ C2_Columns /\ UNCHANGED <<dashVars, printed>>
    \/ C2_MonthReplace /\ UNCHANGED <<dashVars, printed>>
    \/ C2_MonthAsType /\ UNCHANGED <<dashVars, printed>>
    \/ C2_DropNa /\ UNCHANGED <<dashVars, printed>>
    \/ C2_DropDuplicates /\ UNCHANGED <<dashVars, printed>>
    \/ C2_ToCsv /\ UNCHANGED <<dashVars, printed>>
    \/ CK_ReadCsv /\ UNCHANGED dashVars
    \/ CK_IsNull /\ UNCHANGED dashVars
    \/ CK_Duplicated /\ UNCHANGED dashVars
    \/ CK_Describe /\ UNCHANGED dashVars
    \/ CK_Outliers /\ UNCHANGED dashVars
    \/ CK_ItemCodes /\ UNCHANGED dashVars

Spec == Init /\ [][Next]_vars

\* ------------------------------------------------- the dashboard, serving

\* No cleaning script runs while the dashboard serves.
NoScript ==
    /\ script = "none" /\ pc = "none" /\ src = EmptyFrame /\ df = EmptyFrame
    /\ hist = <<>> /\ out = NoFile /\ err = "none"
    /\ printed = <<>>

StoreOf(view) ==
    CASE view = "item-view" -> "item_data"
      [] view = "state-view" -> "state_data"
      [] view = "compare-view" -> "compare_data"
      [] view = "forecast-view" -> "forecast_data"

\* The four stores as the layout creates them (model.py:122-125).
EmptyStores(idf, sdf) ==
    [item_data |-> EmptyStore("item-view", idf, sdf),
     state_data |-> EmptyStore("state-view", idf, sdf),
     compare_data |-> EmptyStore("compare-view", idf, sdf),
     forecast_data |-> EmptyStore("forecast-view", idf, sdf)]

\* The values a user can give to a control: the options of the dropdowns
\* and radio items, a cleared dropdown, and some positions of the sliders
\* (model.py:160-321).
Options(view, field) ==
    CASE view = "item-view" /\ field = "item" ->
            {"Atta", "Rice", "Salt", None}
      [] view = "item-view" /\ field = "years" ->
            {<<2018, 2018>>, <<2019, 2019>>, <<2018, 2023>>}
      [] view = "item-view" /\ field = "viz_type" ->
            {"line", "bar", "heatmap", "seasonal"}
      [] view = "state-view" /\ field = "state" -> {"ALL India", "Goa", None}
      [] view = "state-view" /\ field = "region_type" -> {"combined", "rural"}
      [] view = "state-view" /\ field = "years" ->
            {<<2020, 2021>>, <<2021, 2021>>}
      [] view = "state-view" /\ field = "viz_type" -> {"line", "bar", "map"}
      [] view = "compare-view" /\ field = "items" ->
            {<<>>, <<"Atta", "Dal">>, <<"Rice">>}
      [] view = "compare-view" /\ field = "states" ->
            {<<"ALL India", "Goa">>, <<"Kerala">>}
      [] view = "compare-view" /\ field = "region_type" ->
            {"combined", "urban"}
      [] view = "compare-view" /\ field = "years" ->
            {<<2018, 2023>>, <<2020, 2021>>}
      [] view = "compare-view" /\ field = "active_tab" ->
            {"compare-items", "compare-states"}
      [] view = "compare-view" /\ field = "viz_type" ->
            {"line", "bar", "radar"}
      [] view = "forecast-view" /\ field = "item" ->
            {"Atta", "Dal", "Salt", None}
      [] view = "forecast-view" /\ field = "hist_years" ->
            {<<2020, 2024>>, <<2018, 2019>>}
      [] view = "forecast-view" /\ field = "period" -> {3, 6, 12}
      [] view = "forecast-view" /\ field = "method" -> {"linear", "ma", "exp"}

\* update_view_controls (model.py:153-322): the controls of the view are
\* built anew, showing their initial values.
update_view_controls(view, idf, sdf) ==
    [view |-> view, v |-> ControlDefaults(view, idf, sdf)]

\* The store callback of a view that Dash calls because its input
\* components have just been put on the page (model.py:332-345 and its
\* three siblings).  Whether that call reports a triggering input is up to
\* the Dash release: without one the callback returns the store as it is,
\* with one it writes the initial values of the controls.
StoreOnRender(data, view, shown, triggered) ==
    IF triggered
    THEN [data EXCEPT
            ![StoreOf(view)] = StoreSelections(view, shown.v)]
    ELSE data

\* The page is loaded: the item view is on display, its controls are
\* built, and update_visualization has answered the loading.
DashInit ==
    /\ NoScript
    /\ item_df = ItemTable /\ state_df = StateTable
    /\ tabs = "item-view"
    /\ controls = update_view_controls("item-view", item_df, state_df)
    /\ \E triggered \in BOOLEAN :
         stores = StoreOnRender(EmptyStores(item_df, state_df), "item-view",
                                controls, triggered)
    /\ rendered = update_visualization(tabs, stores, item_df, state_df)
    /\ clicks = 0
    /\ chosen = [view \in ViewTypes |-> EmptyStore(view, item_df, state_df)]

\* The user selects another tab: update_view_controls rebuilds the
\* controls, the store callback of the new controls is called, and
\* update_visualization renders the view from its store.
SelectTab ==
    /\ clicks < MaxClicks
    /\ \E view \in ViewTypes \ {tabs}, triggered \in BOOLEAN :
        /\ tabs' = view
        /\ controls' = update_view_controls(view, item_df, state_df)
        /\ stores' = StoreOnRender(stores, view, controls', triggered)
        /\ rendered' = update_visualization(view, stores', item_df, state_df)
    /\ state_df' = StateDfAfter(state_df, tabs', stores')
    /\ clicks' = clicks + 1
    /\ UNCHANGED <<item_df, chosen>>

\* The user gives one control of the view on display a new value: the
\* store callback of the view writes the values of all its controls, and
\* update_visualization renders the view (model.py:332-416, 428).
ChangeControl(view) ==
    /\ clicks < MaxClicks
    /\ tabs = view
    /\ \E field \in FieldsOf(view) :
       \E value \in Options(view, field) \ {controls.v[field]} :
        /\ controls' = [controls EXCEPT !.v[field] = value]
        /\ stores' = [stores EXCEPT
                        ![StoreOf(view)] = StoreSelections(view, controls'.v)]
        /\ chosen' = [chosen EXCEPT ![view] =
                        [has |-> @.has \cup {field},
                         v |-> [@.v EXCEPT ![field] = value]]]
    /\ rendered' = update_visualization(view, stores', item_df, state_df)
    /\ state_df' = StateDfAfter(state_df, view, stores')
    /\ clicks' = clicks + 1
    /\ UNCHANGED <<tabs, item_df>>

store_item_selections == ChangeControl("item-view")

store_state_selections == ChangeControl("state-view")

store_compare_selections == ChangeControl("compare-view")

store_forecast_selections == ChangeControl("forecast-view")

DashNext ==
    \/ SelectTab /\ UNCHANGED <<cleanVars, printed>>
    \/ store_item_selections /\ UNCHANGED <<cleanVars, printed>>
    \/ store_state_selections /\ UNCHANGED <<cleanVars, printed>>
    \/ store_compare_selections /\ UNCHANGED <<cleanVars, printed>>
    \/ store_forecast_selections /\ UNCHANGED <<cleanVars, printed>>

SpecDash == DashInit /\ [][DashNext]_vars

\* ------------------------------------------------- update_visualization alone
\* The callback as a function of its arguments: the view type and the four
\* stores, over the tables above or over a table with one history.

\* A store of the view holding the keys in `has`, each with a value its
\* control can give it.
PartialStores(view, idf, sdf) ==
    LET filler == ControlDefaults(view, idf, sdf)
        O(f) == Options(view, f)
        values ==
            CASE view = "item-view" ->
                    [item : O("item"), years : O("years"),
                     viz_type : O("viz_type")]
              [] view = "state-view" ->
                    [state : O("state"), region_type : O("region_type"),
                     years : O("years"), viz_type : O("viz_type")]
              [] view = "compare-view" ->
                    [items : O("items"), states : O("states"),
                     region_type : O("region_type"), years : O("years"),
                     active_tab : O("active_tab"), viz_type : O("viz_type")]
              [] view = "forecast-view" ->
                    [item : O("item"), hist_years : O("hist_years"),
                     period : O("period"), method : O("method")]
    IN  {[has |-> has,
          v |-> [f \in FieldsOf(view) |-> IF f \in has THEN v[f] ELSE filler[f]]] :
            has \in SUBSET FieldsOf(view), v \in values}

\* The numbers a history is made of, and the histories: every sequence of
\* up to MaxHist of them, and the two series of the forecast examples.
HistValues == {Num(1), Num(2), Num(3), Num(4)}

Histories ==
    SeqsUpTo(HistValues, MaxHist)
    \cup { [i \in 1..4 |-> Num(98 + 2 * i)], [i \in 1..6 |-> Num(10 * i)] }

\* An item table with the history h of "Atta" from January 2020 on, and a
\* row of another item outside the forecast years.
HistoryTable(h) ==
    << ItemRow("Dal", 2019, 1, Num(1)) >>
    \o [i \in 1..Len(h) |->
            ItemRow("Atta", 2020 + ((i - 1) \div 12), ((i - 1) % 12) + 1, h[i])]

\* An item table with the first a months of 2018 and the first b months of
\* 2019 of "Rice", for the row counts around the two thresholds of the
\* seasonal chart.
SeasonCounts == {0, 5, 6, 7, 12}

SeasonTable(a, b) ==
    [i \in 1..a |-> ItemRow("Rice", 2018, i, Num(100 + i))]
    \o [i \in 1..b |-> ItemRow("Rice", 2019, i, Num(120 - i))]

RenderInit ==
    /\ NoScript
    /\ state_df = StateTable
    /\ \/ /\ item_df = ItemTable
          /\ tabs \in ViewTypes
          /\ \E data \in PartialStores(tabs, item_df, state_df) :
                stores = [EmptyStores(item_df, state_df) EXCEPT
                            ![StoreOf(tabs)] = data]
       \/ /\ item_df \in {HistoryTable(h) : h \in Histories}
          /\ tabs = "forecast-view"
          /\ \E period \in Options("forecast-view", "period"),
                method \in Options("forecast-view", "method") :
                stores = [EmptyStores(item_df, state_df) EXCEPT
                    !.forecast_data = StoreSelections("forecast-view",
                        [item |-> "Atta", hist_years |-> <<2020, 2024>>,
                         period |-> period, method |-> method])]
       \/ /\ item_df \in {SeasonTable(a, b) : a, b \in SeasonCounts} \ {<<>>}
          /\ tabs = "item-view"
          /\ \E viz_type \in {"seasonal", "line"} :
                stores = [EmptyStores(item_df, state_df) EXCEPT
                    !.item_data = StoreSelections("item-view",
                        [item |-> "Rice", years |-> <<2018, 2023>>,
                         viz_type |-> viz_type])]
    /\ controls = update_view_controls(tabs, item_df, state_df)
    /\ rendered = NotTriggered
    /\ clicks = 0
    /\ chosen = [view \in ViewTypes |-> EmptyStore(view, item_df, state_df)]

\* A store has changed: update_visualization is called with the view type
\* and the stores, and returns (model.py:428-1063).
UpdateVisualization ==
    /\ clicks = 0
    /\ rendered' = update_visualization(tabs, stores, item_df, state_df)
    /\ state_df' = StateDfAfter(state_df, tabs, stores)
    /\ clicks' = 1
    /\ UNCHANGED <<tabs, controls, stores, item_df, chosen>>

RenderNext == UpdateVisualization /\ UNCHANGED <<cleanVars, printed>>

SpecRender == RenderInit /\ [][RenderNext]_vars

\* ------------------------------------------------------------------ claims

NoDupRows(rows) == \A i, j \in 1..Len(rows) : i < j => rows[i] # rows[j]

FirstIndex(rows, r) == CHOOSE i \in 1..Len(rows) :
    rows[i] = r /\ \A j \in 1..(i - 1) : rows[j] # r

\* The table before the k-th statement of the running script.
Before(k) == hist[k]
Ran(k) == Len(hist) >= k

EAImputed == script = "errorAnalysis" /\ Ran(4)

\* The nearest strictly earlier row of `rows` that has a combined_index.
HasEarlier(rows, i) == \E j \in 1..(i - 1) : ~rows[j].combined_index.nan
NearestEarlier(rows, i) == CHOOSE j \in 1..(i - 1) :
    /\ ~rows[j].combined_index.nan
    /\ \A k \in (j + 1)..(i - 1) : rows[k].combined_index.nan

ImputedAsClaimed(i) ==
    Before(3)[i].combined_index.nan =>
        IF HasEarlier(Before(3), i)
        THEN df[i].combined_index
                 = Before(3)[NearestEarlier(Before(3), i)].combined_index
        ELSE df[i].combined_index = Mean(Before(4))

\* C1: after the imputation step (forward-fill, then mean-fill) of
\* errorAnalysis.py no row has a missing combined_index, and every value that
\* was missing is the value of the nearest earlier row that had one, or the
\* mean of the forward-filled column when there is no earlier value; also
\* for a column that is missing in every row.
C1_ImputationComplete ==
    EAImputed =>
        \A i \in 1..Len(df) :
            /\ ~df[i].combined_index.nan
            /\ ImputedAsClaimed(i)

\* C1, the part the code keeps: when at least one row has a combined_index
\* the imputation leaves no missing value and fills as claimed.
C1_ImputationCompleteWhenAValueExists ==
    (EAImputed /\ \E i \in 1..Len(Before(3)) : ~Before(3)[i].combined_index.nan)
        => \A i \in 1..Len(df) :
               /\ ~df[i].combined_index.nan
               /\ ImputedAsClaimed(i)

\* C2: the table written by errorAnalysis.py has no two rows equal in every
\* column, also when the rows became equal through the imputation.
C2_OutputDeduplicated ==
    (script = "errorAnalysis" /\ out.written) => NoDupRows(out.table)

JustDeduplicated ==
    \/ script = "errorAnalysis" /\ pc = "ffill"
    \/ script = "cleanup2" /\ pc = "to_csv"

RowsOf(table) == IF script = "cleanup2" THEN table.rows ELSE table

\* C3: drop_duplicates returns exactly the first occurrence of each distinct
\* row, in the original relative order, and applying it again to its own
\* output removes nothing.
C3_DropDuplicatesKeepsFirst ==
    JustDeduplicated =>
        LET before == RowsOf(Before(Len(hist)))
            after  == RowsOf(df)
        IN  /\ NoDupRows(after)
            /\ Range(after) = Range(before)
            /\ \A a, b \in 1..Len(after) :
                   a < b => FirstIndex(before, after[a]) < FirstIndex(before, after[b])
            /\ DropDuplicates(after) = after
            /\ Len(DropDuplicates(after)) = Len(after)

\* C3 witness: a de-duplication that removed a repeated row from between
\* two distinct rows.
C3_Witness ==
    /\ script = "errorAnalysis" /\ pc = "ffill"
    /\ Len(df) = 2
    /\ Len(Before(Len(hist))) = 3
    /\ Before(Len(hist))[1] = Before(Len(hist))[3]

EAKey(r) == <<r.item_code, r.year, r.month>>
StateKey(r) == <<r.state, r.year, r.month>>

\* C4: a cleaned dataset holds at most one row per (entity, year, month),
\* also when the input had two rows with the same key and different values.
C4_OneRowPerKey ==
    /\ (script = "errorAnalysis" /\ out.written) =>
           \A i, j \in 1..Len(out.table) :
               i < j => EAKey(out.table[i]) # EAKey(out.table[j])
    /\ (script = "cleanup2" /\ out.written) =>
           \A i, j \in 1..Len(out.table.rows) :
               i < j => StateKey(out.table.rows[i]) # StateKey(out.table.rows[j])

\* C5: no item_code written by replaceP.py ends in ".P", also for codes
\* that end in ".P.P".
C5_NoTrailingDotP ==
    (script = "replaceP" /\ out.written) =>
        \A i \in 1..Len(out.table) :
            out.table[i].item_code.t = "str"
                => ~EndsWith(out.table[i].item_code.s, <<".", "P">>)

\* C6: stripping the trailing ".P" twice gives the same item_code as
\* stripping it once.
C6_StripIdempotent ==
    (script = "replaceP" /\ Ran(2)) =>
        \A i \in 1..Len(df) :
            StrReplaceDotP(df[i].item_code) = df[i].item_code

\* C7: running a normalizer (header canonicalization, year coercion, month
\* coercion or mapping) on its own output gives that output again and does
\* not raise.
C7_NormalizerIdempotent ==
    /\ (script = "cleanup" /\ pc \in {"to_csv", "done"}) =>
           /\ CU_Normalize(src) = Ok(df)
           /\ CU_Normalize(df) = Ok(df)
    /\ (script = "cleanup2" /\ pc = "dropna") =>
           /\ C2_Normalize(src) = Ok(df)
           /\ C2_Normalize(df) = Ok(df)
    /\ (script \in {"cleanup", "cleanup2"} /\ out.written) =>
           (IF script = "cleanup" THEN CU_Normalize(out.table)
            ELSE C2_Normalize(out.table)) = Ok(out.table)

\* C7 witness: a completed cleanup.py run that changed the headers, the
\* year column and the month column of its input.
C7_Witness ==
    /\ script = "cleanup" /\ pc = "done"
    /\ out.table.columns # src.columns
    /\ \E i \in 1..Len(src.rows) :
           /\ src.rows[i].year.t = "float"
           /\ out.table.rows[i].year # src.rows[i].year
    /\ \E i \in 1..Len(src.rows) :
           /\ src.rows[i].month.t = "str"
           /\ out.table.rows[i].month # src.rows[i].month

\* A str that is an integer literal: whitespace, an optional sign, one or
\* more digits, whitespace.
IsIntLiteral(s) ==
    \E a, b \in 0..Len(s) :
        /\ a < b
        /\ \A i \in 1..a : IsSpace(s[i])
        /\ \A i \in (b + 1)..Len(s) : IsSpace(s[i])
        /\ \/ \A i \in (a + 1)..b : IsDigit(s[i])
           \/ /\ s[a + 1] \in {"+", "-"}
              /\ a + 1 < b
              /\ \A i \in (a + 2)..b : IsDigit(s[i])

\* A str that is a decimal literal: an integer literal, or digits with one
\* decimal point, between whitespace.
IsNumericLiteral(s) ==
    \/ IsIntLiteral(s)
    \/ \E a, b, c \in 0..Len(s) :
           /\ a < c /\ c < b
           /\ \A i \in 1..a : IsSpace(s[i])
           /\ \A i \in (b + 1)..Len(s) : IsSpace(s[i])
           /\ s[c] = "."
           /\ \A i \in ((a + 1)..b) \ {c} : IsDigit(s[i])
           /\ b - a >= 2

YearStepRan == script = "cleanup" /\ Ran(3) /\ HasColumn(Before(3), YEAR)
YearStepFailed == pc = "failed" /\ Len(hist) = 3
RawYear == GetColumn(Before(3), YEAR)

\* The number a year cell stands for is the integer v.
CellEqualsInt(c, v) ==
    CASE c.t = "int"   -> c.n = v
      [] c.t = "float" -> c.n = v /\ c.f = 0
      [] c.t = "str"   -> IsIntLiteral(c.s) /\ Strip(c.s) = IntToStr(v)
      [] c.t = "nan"   -> FALSE

\* The number a year cell stands for, cut to its integer part, is v.
CellTruncatesToInt(c, v) ==
    CASE c.t = "int"   -> c.n = v
      [] c.t = "float" -> c.n <= v /\ 10 * v <= 10 * c.n + c.f
      [] c.t = "str"   -> IsIntLiteral(c.s) /\ Strip(c.s) = IntToStr(v)
      [] c.t = "nan"   -> FALSE

MonthCheckRan == script = "cleanup" /\ Ran(5)
MonthCheckFailed == pc = "failed" /\ Len(hist) = 5
RawMonth == GetColumn(Before(4), MONTH)

OneToTwelve ==
    { <<"1">>, <<"2">>, <<"3">>, <<"4">>, <<"5">>, <<"6">>, <<"7">>, <<"8">>,
      <<"9">>, <<"1", "0">>, <<"1", "1">>, <<"1", "2">> }

\* s is t between whitespace.
IsPadded(s, t) ==
    \E a \in 0..Len(s) :
        /\ a + Len(t) <= Len(s)
        /\ SubSeq(s, a + 1, a + Len(t)) = t
        /\ \A i \in (1..a) \cup ((a + Len(t) + 1)..Len(s)) : IsSpace(s[i])

\* The text of a month cell, trimmed, is one of "1" .. "12".
MonthCellValid(c) ==
    CASE c.t = "int"   -> c.n \in 1..12
      [] c.t = "float" -> FALSE
      [] c.t = "str"   -> \E t \in OneToTwelve : IsPadded(c.s, t)
      [] c.t = "nan"   -> FALSE

C10_MonthInRange ==
    (script \in {"cleanup", "cleanup2"} /\ out.written) =>
        \A i \in 1..Len(out.table.rows) :
            /\ out.table.rows[i].month.t = "int"
            /\ out.table.rows[i].month.n \in 1..12

\* C10 on the numeric-string path alone, where the code keeps it.
C10_MonthInRangeNumericPath ==
    (script = "cleanup" /\ out.written) =>
        \A i \in 1..Len(out.table.rows) :
            /\ out.table.rows[i].month.t = "int"
            /\ out.table.rows[i].month.n \in 1..12

\* C11: in cleanup.py and cleanup2.py a failed year or month coercion is
\* fatal and leaves no partial output: the run that raised ValueError stands
\* at "failed", never reached to_csv, and the destination file is as it
\* was before the run (not written).
CoercionFailed == script \in {"cleanup", "cleanup2"} /\ err = "ValueError"

C11_CoercionFailureWritesNothing ==
    CoercionFailed => pc = "failed" /\ out = NoFile

\* A cleanup.py run whose month column was refused after the year column
\* had been converted.
C11_Witness ==
    /\ CoercionFailed /\ script = "cleanup" /\ Len(hist) = 5
    /\ pc = "failed" /\ ~out.written

\* The same for cleanup2.py, refused at astype(int).
C11_WitnessCleanup2 ==
    /\ CoercionFailed /\ script = "cleanup2" /\ Len(hist) = 4
    /\ pc = "failed" /\ ~out.written

\* ---- claims about the dashboard (model.py)

\* update_visualization has been called on the stores of this state.
Called == clicks > 0

\* The history the forecast view works on: the rows of the selected item
\* within the selected years, in date order.
History ==
    SortByDate(FilterItem(item_df,
        Get(stores.forecast_data, "item", None),
        Get(stores.forecast_data, "hist_years", <<2020, 2024>>)))

Forecasting ==
    Called /\ tabs = "forecast-view" /\ stores.forecast_data.has # {}

\* C12 as stated: a forecast over an empty history is refused with an
\* InsufficientDataError instead of returning a result, whatever the
\* method and the horizon.
C12_EmptyHistoryRaises ==
    (Forecasting /\ History = <<>>) =>
        ~rendered.ok /\ rendered.error = "InsufficientDataError"

\* C12 amended: a forecast over an empty history computes nothing and
\* returns the "No data available" figure with the "No data available for
\* forecasting" message, whatever the method and the horizon; no exception
\* leaves the callback.
C12_EmptyHistoryPlaceholder ==
    (Forecasting /\ History = <<>>) =>
        /\ rendered.ok
        /\ rendered.chart.kind = "placeholder"
        /\ rendered.chart.text = "No data available for the selected parameters"
        /\ rendered.chart.traces = <<>>
        /\ rendered.insights = Message("No data available for forecasting")

\* An empty history forecast with the moving average over six months.
C12_Witness ==
    /\ Forecasting /\ History = <<>>
    /\ stores.forecast_data.v.method = "ma"
    /\ stores.forecast_data.v.period = 6
    /\ stores.forecast_data.has = ForecastFields

HistoryValues == Column(History, "combined_index")

Method == Get(stores.forecast_data, "method", "linear")

Period == Get(stores.forecast_data, "period", 12)

\* v_i = a + b * i for i = 0..n-1, n >= 2: equal steps, no missing value.
IsLinear(y) ==
    /\ Len(y) >= 2
    /\ \A i \in 1..Len(y) : ~y[i].nan
    /\ \A i \in 2..Len(y) : FSub(y[i], y[i - 1]) = FSub(y[2], y[1])

\* The points of the k-th trace of the rendered figure, as numbers.
TraceValues(k) ==
    [i \in 1..Len(rendered.chart.traces[k].points) |->
        rendered.chart.traces[k].points[i].y]

\* The value of the insight with this label.
InsightValue(label) ==
    LET i == CHOOSE i \in 1..Len(rendered.insights) :
                rendered.insights[i].label = label
    IN  rendered.insights[i].value

RECURSIVE Pow(_, _)
Pow(b, e) == IF e = 0 THEN 1 ELSE b * Pow(b, e - 1)

\* The mean of the last w values of y.
MeanOfLast(y, w) ==
    FDiv(FSumSkipNa([j \in 1..w |-> y[Len(y) - w + j]]), Num(w))

\* The mean of y with weights (1 - 0.2)^k on the value k steps before the
\* last one, i.e. weights 4^(n-i) * 5^(i-1) up to a common factor.
GeometricMean(y) ==
    LET n == Len(y)
        wt(i) == Pow(4, n - i) * Pow(5, i - 1)
    IN  FDiv(FSumSkipNa([i \in 1..n |-> FMul(Num(wt(i)), y[i])]),
             FSumSkipNa([i \in 1..n |-> Num(wt(i))]))

NoneMissing(y) == \A i \in 1..Len(y) : ~y[i].nan

\* C14: the moving-average and exponential-smoothing forecasts are flat:
\* every projected value is the last value of the computed series; for a
\* history of at least window = horizon div 2 values that is the mean of
\* its last window values, and for exponential smoothing it is the
\* exponentially weighted mean of the history with alpha = 0.2.
C14_FlatForecast ==
    (Forecasting /\ Method \in {"ma", "exp"} /\ History # <<>>) =>
        LET y == HistoryValues
            n == Len(y)
            w == Period \div 2
        IN  /\ rendered.ok
            /\ Len(TraceValues(3)) = Period
            /\ \A k \in 1..Period : TraceValues(3)[k] = TraceValues(2)[n]
            /\ (Method = "ma" /\ n >= w /\ NoneMissing(y)) =>
                    TraceValues(3)[1] = MeanOfLast(y, w)
            /\ (Method = "exp" /\ NoneMissing(y)) =>
                    TraceValues(3)[1] = GeometricMean(y)

\* Window 3 (horizon 6) on 10, 20, 30, 40, 50, 60: every step is 50.
C14_Witness ==
    /\ Forecasting /\ Method = "ma" /\ Period = 6
    /\ HistoryValues = [i \in 1..6 |-> Num(10 * i)]
    /\ rendered.ok
    /\ TraceValues(3) = [k \in 1..6 |-> Num(50)]

\* The same history smoothed exponentially: a flat projection too.
C14_WitnessExp ==
    /\ Forecasting /\ Method = "exp" /\ Period = 3
    /\ HistoryValues = << Num(1), Num(2) >>
    /\ rendered.ok
    /\ TraceValues(3) = [k \in 1..3 |-> Rat(14, 9)]

\* C15: whatever the user does (changing one control, switching the view
\* tab and coming back), every field of every view's store holds the
\* value the user chose for it last; a field never chosen is not in the
\* store or holds the initial value of its control.
C15_StoresKeepChoices ==
    tabs \in ViewTypes =>
        \A view \in ViewTypes : \A field \in FieldsOf(view) :
            LET data == stores[StoreOf(view)]
            IN  IF field \in chosen[view].has
                THEN /\ field \in data.has
                     /\ data.v[field] = chosen[view].v[field]
                ELSE \/ field \notin data.has
                     \/ data.v[field] =
                            ControlDefaults(view, item_df, state_df)[field]

\* The defaults update_visualization documents for the fields of a view
\* (the second arguments of .get); an entity that is not there is None.
DocumentedDefaults(view) ==
    CASE view = "item-view" ->
            [item |-> None, years |-> <<2018, 2023>>, viz_type |-> "line"]
      [] view = "state-view" ->
            [state |-> None, region_type |-> "combined",
             years |-> <<YearMin(state_df), YearMax(state_df)>>,
             viz_type |-> "line"]
      [] view = "compare-view" ->
            [items |-> <<items(item_df)[1]>>, states |-> <<"ALL India">>,
             region_type |-> "combined", years |-> <<2018, 2023>>,
             active_tab |-> "compare-items", viz_type |-> "line"]
      [] view = "forecast-view" ->
            [item |-> None, hist_years |-> <<2020, 2024>>, period |-> 12,
             method |-> "linear"]

\* The store of the view on display, and the same store with every
\* absent field set to its documented default.
ActiveStore == stores[StoreOf(tabs)]

WithDefaults ==
    [stores EXCEPT ![StoreOf(tabs)] =
        [has |-> FieldsOf(tabs),
         v |-> [f \in FieldsOf(tabs) |->
                    IF f \in ActiveStore.has THEN ActiveStore.v[f]
                    ELSE DocumentedDefaults(tabs)[f]]]]

SelectParameters ==
    Returned(Placeholder("Please select parameters to visualize data", <<>>),
             Message("Select parameters to see insights"))

C17_NeverRaises == (tabs \in ViewTypes) => rendered.ok

\* The rows the item view works on, and its chart kind.
ItemRows ==
    FilterItem(item_df, Get(stores.item_data, "item", None),
               Get(stores.item_data, "years", <<2018, 2023>>))

ItemViewShown ==
    Called /\ tabs = "item-view" /\ stores.item_data.has # {}

InsufficientData ==
    Placeholder("Insufficient data for seasonal analysis",
                <<Get(stores.item_data, "item", None)>>)

\* C18 as stated: the item view asked for the seasonal chart over fewer
\* than 12 rows returns the explicit "Insufficient data" placeholder, and
\* nothing fails.
C18_SeasonalInsufficient ==
    (ItemViewShown /\ Get(stores.item_data, "viz_type", "line") = "seasonal"
        /\ Len(ItemRows) < 12) =>
            rendered.ok /\ rendered.chart = InsufficientData

\* The part of C18 that the code keeps: with fewer than 12 rows (with 12
\* too) that hold a number, or with no row at all, the seasonal chart is
\* the "Insufficient data" placeholder.
C18_SeasonalInsufficientWhenValues ==
    (ItemViewShown /\ Get(stores.item_data, "viz_type", "line") = "seasonal"
        /\ Len(ItemRows) <= 12
        /\ (ItemRows = <<>> \/ \E i \in 1..Len(ItemRows) :
                                ~ItemRows[i].combined_index.nan)) =>
            rendered.ok /\ rendered.chart = InsufficientData

\* C19: the tables loaded at startup are never changed by a callback (the
\* quarterly bar chart of the state view included) and nothing is kept
\* from one call to the next: in every state the tables are the loaded
\* ones and the output on display is the function of the view type and
\* the stores alone.
C19_TablesReadOnly ==
    (tabs \in ViewTypes) =>
        /\ item_df = ItemTable /\ state_df = StateTable
        /\ rendered = update_visualization(tabs, stores, ItemTable,
                                           StateTable)

\* The state view has drawn its quarterly bar chart for Goa: two quarters
\* of 2020 and one of 2021.
C19_Witness ==
    /\ Called /\ tabs = "state-view" /\ stores.state_data.has # {}
    /\ stores.state_data.v.viz_type = "bar"
    /\ stores.state_data.v.state = "Goa"
    /\ rendered.ok /\ rendered.chart.kind = "bar"
    /\ Len(rendered.chart.traces[1].points) = 3
    /\ state_df = StateTable

\* C20: the audit is a pure read.  From the moment check.py has loaded the
\* table, through its four checks and whether it ends normally or fails, the
\* table in memory is the loaded one row for row, and no file is written.
C20_AuditIsPureRead ==
    script = "check" =>
        /\ out = NoFile
        /\ pc # "read_csv" =>
              /\ df = src
              /\ \A k \in 2..Len(hist) : hist[k] = src

\* The four checks have run (the third prints twice) on a table that holds a
\* repeated row, a missing value and a code that does not match, and the
\* checks counted them.
C20_Witness ==
    /\ script = "check" /\ pc = "done"
    /\ Len(printed) = 5
    /\ \E i \in 1..Len(src) : Duplicated(src, i)
    /\ printed[1].values[2].n > 0
    /\ printed[2].values[1].n > 0
    /\ printed[5].values[1].n > 0
    /\ df = src

\* The audit has run its outlier check.
OutliersChecked ==
    script = "check" /\ pc \in {"item_codes", "done", "failed"}

\* Twice the value lies beyond twice the fence: 2 v < 5 Q1 - 3 Q3 is
\* v < Q1 - 1.5 (Q3 - Q1), and 2 v > 5 Q3 - 3 Q1 is v > Q3 + 1.5 (Q3 - Q1).
BeyondFences(v, Q1, Q3) ==
    /\ ~v.nan /\ ~Q1.nan /\ ~Q3.nan
    /\ \/ FGt(FSub(FMul(Num(5), Q1), FMul(Num(3), Q3)), FMul(Num(2), v))
       \/ FGt(FMul(Num(2), v), FSub(FMul(Num(5), Q3), FMul(Num(3), Q1)))

\* C21: outlier detection is Tukey's rule on combined_index.  With the
\* quartiles Q1 and Q3 of the whole column, the rows the audit reports are
\* exactly the rows whose value is below Q1 - 1.5 IQR or above
\* Q3 + 1.5 IQR, and the count it prints is their number; for the series
\* 10, 12, 11, 13, 200 the quartiles are 11 and 13 and exactly the row of
\* 200 is reported.
C21_TukeyOutliers ==
    OutliersChecked =>
        LET ci == Column(df, "combined_index")
            Q1 == Quantile(ci, 1, 4)
            Q3 == Quantile(ci, 3, 4)
            beyond == SelectSeq(df, LAMBDA r :
                          BeyondFences(r.combined_index, Q1, Q3))
        IN  /\ Outliers(df) = beyond
            /\ printed[4] = Printed("Number of outliers",
                                    << Num(Len(beyond)) >>)
            /\ src = CKExample =>
                  /\ Q1 = Num(11) /\ Q3 = Num(13)
                  /\ Outliers(df) = << CKExample[5] >>

\* The outlier check has run on the series 10, 12, 11, 13, 200 and counted
\* one outlier.
C21_Witness ==
    /\ OutliersChecked /\ src = CKExample
    /\ printed[4].values = << Num(1) >>

\* The outlier check has run on a column where a value sits on a fence (all
\* values equal, so both fences are that value) and reported nothing.
C21_WitnessOnFence ==
    /\ OutliersChecked /\ Len(df) = MaxRows
    /\ \A i \in 1..Len(df) : df[i].combined_index = Num(1)
    /\ printed[4].values = << Num(0) >>

\* The audit has run its item-code check, to its end or to a failure.
ItemCodesChecked == script = "check" /\ pc \in {"done", "failed"}

\* The whole of s is five runs of digits and a run of word characters,
\* joined by dots: s has exactly five dots, none first, last or next to
\* another, digits before the fifth dot and word characters after it.
FullyMatches(s) ==
    LET dots == {i \in 1..Len(s) : s[i] = "."}
    IN  /\ Cardinality(dots) = 5
        /\ \A i \in dots : i > 1 /\ i < Len(s) /\ (i + 1) \notin dots
        /\ \A i \in (1..Len(s)) \ dots :
              IF \E j \in dots : j > i THEN IsDigit(s[i])
              ELSE IsWordChar(s[i])

InvalidItemCode(cell) == cell.t # "str" \/ ~FullyMatches(cell.s)

\* C22: the item-code check counts a row as invalid exactly when its
\* item_code is missing or is not, as a whole, five groups of digits and a
\* word segment joined by dots (so a code with a .P suffix is invalid), and
\* it only reports: the table keeps every row as it was.
C22_InvalidCodesCounted ==
    ItemCodesChecked =>
        /\ pc = "done"
        /\ printed[5] = Printed("Number of invalid item codes",
              << Num(Len(SelectSeq(df, LAMBDA r :
                                     InvalidItemCode(r.item_code)))) >>)
        /\ df = src

\* The exception: a table where no item_code is a string, or where a code
\* ends in a line break.
C22_Excepted ==
    \/ src # <<>> /\ \A i \in 1..Len(src) : src[i].item_code.t # "str"
    \/ \E i \in 1..Len(src) : src[i].item_code.t = "str"
                               /\ EndsWith(src[i].item_code.s, <<"\n">>)

\* C22 for the other tables: there the count is the number of rows whose
\* code is missing or does not fully match, and the table is unchanged.
C22_InvalidCodesCountedElsewhere ==
    ItemCodesChecked /\ ~C22_Excepted => C22_InvalidCodesCounted

\* Contents the three stores that are not on display may have: all empty,
\* or all holding the initial values of their controls.
OtherStores ==
    { EmptyStores(item_df, state_df),
      [item_data |-> StoreSelections("item-view",
            ControlDefaults("item-view", item_df, state_df)),
       state_data |-> StoreSelections("state-view",
            ControlDefaults("state-view", item_df, state_df)),
       compare_data |-> StoreSelections("compare-view",
            ControlDefaults("compare-view", item_df, state_df)),
       forecast_data |-> StoreSelections("forecast-view",
            ControlDefaults("forecast-view", item_df, state_df))] }

\* C23: what is rendered depends on the view type and the store of that
\* view only.  With the three other stores emptied, or set to their initial
\* values, a call of update_visualization with the same view type and the
\* same store of the view returns what the page shows (the same chart, the
\* same insights, the same failure); so two states that agree on the view
\* type and on the store of the view show the same.
C23_OnlyActiveStore ==
    tabs # "none" =>
        \A others \in OtherStores :
            update_visualization(tabs,
                [others EXCEPT ![StoreOf(tabs)] = ActiveStore],
                item_df, state_df) = rendered

\* The forecast view is on display with a figure, while the store of the
\* item view holds an item the user chose there.
C23_Witness ==
    /\ tabs = "forecast-view" /\ clicks > 0
    /\ rendered.ok /\ rendered.chart.kind # "placeholder"
    /\ stores.item_data.has # {}
    /\ stores.item_data.v.item = "Rice"
    /\ stores.forecast_data.v.item = "Atta"

\* The moving-average forecast of a history shorter than its window.
ShortHistory ==
    /\ Forecasting /\ Method = "ma"
    /\ History # <<>> /\ Len(History) < Period \div 2

\* C24: a moving-average forecast over a non-empty history with fewer rows
\* than the window (horizon div 2) is returned as a normal result, a
\* forecast figure and its insights, in which the projection of every
\* horizon step, the forecasted value and the expected change are missing
\* values; it is neither a placeholder nor an error.
C24_ShortHistoryMissing ==
    ShortHistory =>
        /\ rendered.ok /\ rendered.error = ""
        /\ rendered.chart.kind = "forecast"
        /\ Len(TraceValues(3)) = Period
        /\ \A k \in 1..Period : TraceValues(3)[k] = NaN
        /\ InsightValue("Forecasted value") = NaN
        /\ InsightValue("Expected change") = NaN

\* Horizon 12 (window 6) over the four values 100, 102, 104, 106: a figure
\* comes back and its projection is missing.
C24_Witness ==
    /\ ShortHistory /\ Period = 12
    /\ HistoryValues = [i \in 1..4 |-> Num(98 + 2 * i)]
    /\ rendered.ok /\ rendered.chart.kind = "forecast"
    /\ TraceValues(3)[12] = NaN

\* The item view has rendered the seasonal chart type.
SeasonalShown ==
    ItemViewShown /\ Get(stores.item_data, "viz_type", "line") = "seasonal"

\* The rows of the selection that fall in year y.
RowsOfYear(y) == Len(SelectSeq(ItemRows, LAMBDA r : r.year = y))

\* The years that have a line of their own in the rendered figure.
YearsDrawn ==
    { rendered.chart.traces[k].name[2] :
        k \in { j \in 1..Len(rendered.chart.traces) :
                    rendered.chart.traces[j].name[1] = "Year" } }

\* C25: the seasonal chart is built exactly when the selection has more
\* than 12 rows; with exactly 12 rows, one full year of months, the
\* "Insufficient data" placeholder is what comes back; and a built chart
\* has a line for a year exactly when that year has more than 6 rows.
C25_SeasonalThresholds ==
    SeasonalShown =>
        /\ (rendered.ok /\ rendered.chart.kind = "seasonal")
                <=> Len(ItemRows) > 12
        /\ Len(ItemRows) = 12 =>
              rendered.ok /\ rendered.chart = InsufficientData
        /\ Len(ItemRows) > 12 =>
              YearsDrawn = { y \in 2018..2023 : RowsOfYear(y) > 6 }

\* Exactly twelve rows, the whole of 2018: the placeholder.
C25_Witness ==
    /\ SeasonalShown /\ rendered.ok
    /\ Len(ItemRows) = 12 /\ RowsOfYear(2018) = 12
    /\ rendered.chart = InsufficientData

\* Thirteen rows, seven of 2018 and six of 2019: the chart is built and
\* draws 2018 only.
C25_WitnessSixRows ==
    /\ SeasonalShown /\ rendered.ok
    /\ RowsOfYear(2018) = 7 /\ RowsOfYear(2019) = 6
    /\ rendered.chart.kind = "seasonal"
    /\ YearsDrawn = {2018}

\* v is the largest (the smallest) of the values of ys that are not missing.
IsLargest(v, ys) ==
    /\ \E i \in 1..Len(ys) : ys[i] = v /\ ~v.nan
    /\ \A i \in 1..Len(ys) : ~FGt(ys[i], v)

IsSmallest(v, ys) ==
    /\ \E i \in 1..Len(ys) : ys[i] = v /\ ~v.nan
    /\ \A i \in 1..Len(ys) : ~FGt(v, ys[i])

\* The value of the selected row whose month is the one with this key.
ValueOfMonth(key) ==
    LET i == CHOOSE i \in 1..Len(ItemRows) :
                Num(DateKey(ItemRows[i])) = key
    IN  ItemRows[i].combined_index

\* C26: in the insights of the item view over a non-empty selection, the
\* number reported as "Highest value" is the largest combined_index of the
\* selected rows and the number reported as "Lowest value" is the
\* smallest; each is the value of the row whose month is printed next to
\* it.
C26_HighestIsMaximum ==
    (ItemViewShown /\ ItemRows # <<>> /\ rendered.ok) =>
        LET ci == Column(ItemRows, "combined_index")
        IN  /\ IsLargest(InsightValue("Highest value"), ci)
            /\ IsSmallest(InsightValue("Lowest value"), ci)
            /\ InsightValue("Highest value")
                    = ValueOfMonth(InsightValue("Highest value month"))
            /\ InsightValue("Lowest value")
                    = ValueOfMonth(InsightValue("Lowest value month"))

\* What the insights do report: the last value of the selection as
\* "Highest value" and the first as "Lowest value", next to the months of
\* the largest and of the smallest value.
C26_HighestIsLastValue ==
    (ItemViewShown /\ ItemRows # <<>> /\ rendered.ok) =>
        LET ci == Column(SortByDate(ItemRows), "combined_index")
        IN  /\ InsightValue("Highest value") = ci[Len(ci)]
            /\ InsightValue("Lowest value") = ci[1]
            /\ IsLargest(ValueOfMonth(InsightValue("Highest value month")), ci)
            /\ IsSmallest(ValueOfMonth(InsightValue("Lowest value month")), ci)

\* cleanup2.py has executed its month coercion (its fourth statement) on a
\* table that has a month column; the months as they were loaded.
C2MonthCoerced ==
    script = "cleanup2" /\ Ran(4) /\ HasColumn(Before(3), MONTH)

C2RawMonth == GetColumn(Before(3), MONTH)

InMonthTable(s) == \E k \in 1..Len(month_mapping) : month_mapping[k].name = s

\* The months the statement says abort the run, and the months that do.
AbortsAsStated(c) == c.t = "nan" \/ (c.t = "str" /\ ~InMonthTable(c.s))

AbortsInFact(c) ==
    c.t = "nan" \/ (c.t = "str" /\ ~InMonthTable(c.s) /\ ~IsIntLiteral(c.s))

\* A finished run wrote a table without a missing value and without two
\* identical rows, and no row had been dropped before the coercion.
C2CompletedClean ==
    /\ Ran(5) => Len(Before(5).rows) = Len(src.rows)
    /\ pc = "done" =>
          /\ out.written
          /\ \A i \in 1..Len(out.table.rows) : ~RowHasNA(out.table.rows[i])
          /\ NoDupRows(out.table.rows)

\* C27 as stated: in cleanup2.py a row whose month is missing, or is a
\* string that is not in the month table, is not dropped but aborts the
\* whole run with no output, because rows with missing values are dropped
\* only after the coercion; every run that completes writes a table
\* without a missing value and without two identical rows.
C27_MonthAbortsBeforeDropNa ==
    C2MonthCoerced =>
        /\ (\E i \in 1..Len(C2RawMonth) : AbortsAsStated(C2RawMonth[i]))
                => pc = "failed" /\ out = NoFile
        /\ C2CompletedClean

\* C27, amended: the run aborts with no output exactly when some month is
\* missing or is a string that is neither in the month table nor the text
\* of an integer (a string such as "3" is converted and its row is kept);
\* no row is dropped before the coercion, and every run that completes
\* writes a table without a missing value and without two identical rows.
C27_NonIntegerMonthAborts ==
    C2MonthCoerced =>
        /\ (\E i \in 1..Len(C2RawMonth) : AbortsInFact(C2RawMonth[i]))
                <=> (pc = "failed" /\ out = NoFile)
        /\ pc = "failed" => err = "ValueError"
        /\ C2CompletedClean

\* A run aborted for a missing month although its other row is a valid
\* "January": nothing was written.
C27_Witness ==
    /\ C2MonthCoerced /\ pc = "failed" /\ out = NoFile
    /\ Len(C2RawMonth) = 2
    /\ C2RawMonth[1] = Missing
    /\ C2RawMonth[2] = Str(<<"J", "a", "n", "u", "a", "r", "y">>)

\* A run that completed after dropping a row with a missing index value
\* and keeping the row of the month "3".
C27_WitnessCompleted ==
    /\ C2MonthCoerced /\ pc = "done"
    /\ \E i \in 1..Len(C2RawMonth) : C2RawMonth[i] = Str(<<"3">>)
    /\ \E i \in 1..Len(Before(5).rows) : RowHasNA(Before(5).rows[i])
    /\ Len(out.table.rows) = 1

====
